---- MODULE Spec2Model ----
(***************************************************************************)
(* Model of the inventory-to-catalog pipeline of macbook-inventory         *)
(* (src/server.js.js, first server variant, lines 1-2916):                 *)
(*   - the row classifier (analyzeProductAdvanced and its helpers),        *)
(*   - grouping and variant aggregation (createProductGroups),             *)
(*   - the catalog reconciler (POST /api/sync-shopify and its helpers).    *)
(* JavaScript strings are TLA+ strings; the string functions of the source *)
(* are computed character by character.                                    *)
(***************************************************************************)
EXTENDS Integers, Sequences, FiniteSets, TLC

(***************************************************************************)
(* JavaScript string primitives                                            *)
(***************************************************************************)
UpperChars == "ABCDEFGHIJKLMNOPQRSTUVWXYZ"
LowerChars == "abcdefghijklmnopqrstuvwxyz"
DigitChars == "0123456789"

\* the characters a..b of s, clamped to the string as String.prototype.substring
\* clamps its arguments
Sub(s, a, b) ==
  LET lo == IF a < 1 THEN 1 ELSE a
      hi == IF b > Len(s) THEN Len(s) ELSE b
  IN IF lo > hi THEN "" ELSE SubSeq(s, lo, hi)

Ch(s, i) == Sub(s, i, i)

\* String.prototype.includes
Includes(s, sub) ==
  \E i \in 1..(Len(s) - Len(sub) + 1) : Sub(s, i, i + Len(sub) - 1) = sub

\* String.prototype.indexOf, 1-based; 0 when absent
IndexOf(s, sub) ==
  IF Includes(s, sub)
  THEN CHOOSE i \in 1..(Len(s) - Len(sub) + 1) :
         /\ Sub(s, i, i + Len(sub) - 1) = sub
         /\ \A j \in 1..(i - 1) : Sub(s, j, j + Len(sub) - 1) # sub
  ELSE 0

CharsOf(s) == {SubSeq(s, i, i) : i \in 1..Len(s)}
DigitSet == CharsOf(DigitChars)
UpperSet == CharsOf(UpperChars)
LowerSet == CharsOf(LowerChars)
IsDigit(c) == c \in DigitSet
IsUpper(c) == c \in UpperSet
IsLower(c) == c \in LowerSet
IsWordCh(c) == IsDigit(c) \/ IsUpper(c) \/ IsLower(c) \/ c = "_"

\* the lower-case letter of each capital, and the capital of each letter
LowerOf ==
  [c \in UpperSet |-> Ch(LowerChars, IndexOf(UpperChars, c))]
UpperOf ==
  [c \in LowerSet |-> Ch(UpperChars, IndexOf(LowerChars, c))]
LowerCh(c) == IF IsUpper(c) THEN LowerOf[c] ELSE c
UpperCh(c) == IF IsLower(c) THEN UpperOf[c] ELSE c

\* the pieces lo..hi of a text, one piece per position of the source string,
\* put together in order
RECURSIVE ConcatAll(_, _, _)
ConcatAll(pieces, lo, hi) ==
  IF lo > hi THEN ""
  ELSE IF lo = hi THEN pieces[lo]
  ELSE ConcatAll(pieces, lo, (lo + hi) \div 2)
       \o ConcatAll(pieces, (lo + hi) \div 2 + 1, hi)

\* String.prototype.toLowerCase
ToLowerCase(s) == ConcatAll([i \in 1..Len(s) |-> LowerCh(Ch(s, i))], 1, Len(s))

\* String.prototype.toUpperCase
ToUpperCase(s) == ConcatAll([i \in 1..Len(s) |-> UpperCh(Ch(s, i))], 1, Len(s))

\* s.replace(/[^<allowed>]/g, ''): keep the characters of the class
KeptAt(s, allowed, i) == IF Includes(allowed, Ch(s, i)) THEN Ch(s, i) ELSE ""
KeepChars(s, allowed) ==
  ConcatAll([i \in 1..Len(s) |-> KeptAt(s, allowed, i)], 1, Len(s))

\* s.replace(pat, rep) with a string pattern: the first occurrence only
ReplaceFirst(s, pat, rep) ==
  LET i == IndexOf(s, pat) IN
  IF i = 0 THEN s
  ELSE Sub(s, 1, i - 1) \o rep \o Sub(s, i + Len(pat), Len(s))

\* String.prototype.trim (the rows of the model carry no other white space
\* than the space character)
RECURSIVE TrimLeft(_)
TrimLeft(s) == IF Len(s) > 0 /\ Ch(s, 1) = " " THEN TrimLeft(Tail(s)) ELSE s
RECURSIVE TrimRight(_)
TrimRight(s) ==
  IF Len(s) > 0 /\ Ch(s, Len(s)) = " "
  THEN TrimRight(Sub(s, 1, Len(s) - 1)) ELSE s
Trim(s) == TrimRight(TrimLeft(s))

\* a || b on strings: the empty string is falsy
OrElse(a, b) == IF a # "" THEN a ELSE b

\* the longest run of digits of s starting at position i (\d+ at i)
RECURSIVE DigitsAt(_, _)
DigitsAt(s, i) ==
  IF i <= Len(s) /\ IsDigit(Ch(s, i)) THEN Ch(s, i) \o DigitsAt(s, i + 1) ELSE ""

\* the position of the first digit of s from position i on; 0 when none
FirstDigitPos(s) ==
  IF \E i \in 1..Len(s) : IsDigit(Ch(s, i))
  THEN CHOOSE i \in 1..Len(s) :
         IsDigit(Ch(s, i)) /\ \A j \in 1..(i - 1) : ~IsDigit(Ch(s, j))
  ELSE 0

\* parseInt of a string of digits
RECURSIVE ParseDigits(_, _)
ParseDigits(s, acc) ==
  IF s = "" THEN acc
  ELSE ParseDigits(Tail(s), 10 * acc + (IndexOf(DigitChars, Head(s)) - 1))

\* parseInt(s): the digits at the start of s, after white space; -1 stands
\* for NaN, which like NaN is below every threshold it is compared with
ParseInt(s) ==
  IF DigitsAt(TrimLeft(s), 1) = "" THEN -1
  ELSE ParseDigits(DigitsAt(TrimLeft(s), 1), 0)

\* Number.prototype.toString of a non-negative integer
RECURSIVE NatToString(_)
NatToString(n) ==
  IF n < 10 THEN Ch(DigitChars, n + 1)
  ELSE NatToString(n \div 10) \o Ch(DigitChars, (n % 10) + 1)

\* Array.prototype.filter(Boolean) followed by join(sep)
RECURSIVE JoinNonEmpty(_, _)
JoinNonEmpty(parts, sep) ==
  IF parts = << >> THEN ""
  ELSE LET rest == JoinNonEmpty(Tail(parts), sep) IN
       IF Head(parts) = "" THEN rest
       ELSE IF rest = "" THEN Head(parts)
       ELSE Head(parts) \o sep \o rest

(***************************************************************************)
(* Row classifier: analyzeProductAdvanced and its helpers                  *)
(***************************************************************************)
\* What a lookup of an inherited key ('constructor', ...) in an object
\* literal returns: a value that is not a string.  The model writes it as the
\* text JavaScript gives it when it is concatenated into a string.
ObjectFn == "function Object() { [native code] }"
ObjectPrototypeKeys ==
  {"constructor", "toString", "valueOf", "hasOwnProperty", "isPrototypeOf",
   "propertyIsEnumerable", "toLocaleString", "__proto__"}

\* the first string of subs, from position i on, that s includes; "" if none
RECURSIVE FirstIncluded(_, _, _)
FirstIncluded(s, subs, i) ==
  IF i > Len(subs) THEN ""
  ELSE IF Includes(s, subs[i]) THEN subs[i]
  ELSE FirstIncluded(s, subs, i + 1)

\* processor.match(/Intel.*?(Core.*?|Xeon.*?|Celeron.*?)\s*(\w+)/i):
\* group 1 + ' ' + group 2, or 'Intel' when the pattern does not match
RECURSIVE SpacesAt(_, _)
SpacesAt(s, i) == IF Ch(s, i) = " " THEN 1 + SpacesAt(s, i + 1) ELSE 0
RECURSIVE WordAt(_, _)
WordAt(s, i) == IF IsWordCh(Ch(s, i)) THEN Ch(s, i) \o WordAt(s, i + 1) ELSE ""
\* the length of the keyword of group 1 at position j of the lower-cased text
IntelKeywordLen(lower, j) ==
  IF Sub(lower, j, j + 3) \in {"core", "xeon"} THEN 4
  ELSE IF Sub(lower, j, j + 6) = "celeron" THEN 7 ELSE 0
\* \s*(\w+) matches at position k
IntelTailAt(processor, k) == IsWordCh(Ch(processor, k + SpacesAt(processor, k)))
\* group 1 starts at j and its lazy part is e characters long
IntelOk(processor, lower, j, e) ==
  /\ IntelKeywordLen(lower, j) > 0
  /\ IntelTailAt(processor, j + IntelKeywordLen(lower, j) + e)
IntelGroups(processor, j, k) ==
  Sub(processor, j, k - 1) \o " "
  \o WordAt(processor, k + SpacesAt(processor, k))
MinOf(S) == CHOOSE x \in S : \A y \in S : x <= y
IntelAt(processor, lower, j) ==
  IntelGroups(processor, j,
    j + IntelKeywordLen(lower, j)
      + MinOf({e \in 0..Len(processor) : IntelOk(processor, lower, j, e)}))
IntelFrom(processor, lower, starts) ==
  IF starts = {} THEN "Intel" ELSE IntelAt(processor, lower, MinOf(starts))
IntelStarts(processor, lower) ==
  {j \in (IndexOf(lower, "intel") + 5)..Len(processor) :
     \E e \in 0..Len(processor) : IntelOk(processor, lower, j, e)}
IntelMatch(processor) ==
  IntelFrom(processor, ToLowerCase(processor),
            IntelStarts(processor, ToLowerCase(processor)))

chipNames == << "M3 Max", "M3 Pro", "M3", "M2 Ultra", "M2 Max", "M2 Pro", "M2",
                "M1 Ultra", "M1 Max", "M1 Pro", "M1" >>

extractProcessorDetails(processor) ==
  IF processor = "" THEN "Unknown"
  ELSE OrElse(FirstIncluded(processor, chipNames, 1),
              IF Includes(processor, "Intel") THEN IntelMatch(processor)
              ELSE Trim(processor))

\* `${amount}${unit}` where amount = n / 1000 for a unit-less n >= 1000
FractionDigits(r) ==
  IF r % 100 = 0 THEN NatToString(r \div 100)
  ELSE IF r % 10 = 0
  THEN (IF r < 100 THEN "0" ELSE "") \o NatToString(r \div 10)
  ELSE (IF r < 10 THEN "00" ELSE IF r < 100 THEN "0" ELSE "") \o NatToString(r)
ThousandthsToString(n) ==
  IF n % 1000 = 0 THEN NatToString(n \div 1000)
  ELSE NatToString(n \div 1000) \o "." \o FractionDigits(n % 1000)

\* (TB|GB|T|G)? at position i of s
UnitAt(s, i) ==
  IF Sub(s, i, i + 1) \in {"TB", "GB"} THEN Sub(s, i, i + 1)
  ELSE IF Ch(s, i) \in {"T", "G"} THEN Ch(s, i)
  ELSE ""

\* lines 1142-1155 for the match (\d+)(TB|GB|T|G)? = (digits)(unit)
StorageOf(amount, unit) ==
  IF unit = "T" THEN NatToString(amount) \o "TB"
  ELSE IF unit = "G" THEN NatToString(amount) \o "GB"
  ELSE IF unit = ""
  THEN (IF amount >= 1000 THEN ThousandthsToString(amount) \o "TB"
        ELSE NatToString(amount) \o "GB")
  ELSE NatToString(amount) \o unit

StorageMatch(storage, storageUpper, p) ==
  IF p = 0 THEN storage
  ELSE StorageOf(ParseDigits(DigitsAt(storageUpper, p), 0),
                 UnitAt(storageUpper, p + Len(DigitsAt(storageUpper, p))))

StorageFromUpper(storage, storageUpper) ==
  StorageMatch(storage, storageUpper, FirstDigitPos(storageUpper))

standardizeStorage(storage) ==
  IF storage = "" THEN ""
  ELSE StorageFromUpper(storage,
                        KeepChars(ToUpperCase(storage), "0123456789TBG"))

MemoryFromUpper(memory, memoryUpper) ==
  IF FirstDigitPos(memoryUpper) = 0 THEN memory
  ELSE DigitsAt(memoryUpper, FirstDigitPos(memoryUpper)) \o "GB"

standardizeMemory(memory) ==
  IF memory = "" THEN ""
  ELSE MemoryFromUpper(memory, KeepChars(ToUpperCase(memory), "0123456789GB"))

modelSizeMap ==
  << [size |-> "16\"", models |-> {"A2141", "A2485", "A2780", "A2991", "A3112", "A3185", "A3401"}],
     [size |-> "15\"", models |-> {"A1707", "A1990", "A3114", "A2941", "A3241"}],
     [size |-> "14\"", models |-> {"A2442", "A2779", "A2992"}],
     [size |-> "13\"", models |-> {"A1706", "A1708", "A1989", "A2159", "A2251", "A2289", "A2338", "A1932", "A2337", "A2681", "A3113", "A3240"}],
     [size |-> "24\"", models |-> {"A2438", "A2439", "A2873", "A2874", "A3115"}],
     [size |-> "27\"", models |-> {"A2115", "A1419"}],
     [size |-> "21.5\"", models |-> {"A2116", "A1418"}],
     [size |-> "12.9\"", models |-> {"A1584", "A1652", "A1670", "A1671", "A1876", "A2014", "A1895", "A2229", "A2069", "A2232", "A2378", "A2461", "A2379", "A2436", "A2764", "A2437"}],
     [size |-> "11\"", models |-> {"A1980", "A2013", "A1934", "A2228", "A2068", "A2230", "A2377", "A2459", "A2301", "A2435", "A2761", "A2302"}],
     [size |-> "10.5\"", models |-> {"A1701", "A1709"}],
     [size |-> "9.7\"", models |-> {"A1673", "A1674", "A1675"}],
     [size |-> "10.9\"", models |-> {"A2316", "A2324", "A2325", "A2588", "A2589", "A2591"}],
     [size |-> "10.2\"", models |-> {"A2197", "A2200", "A2198", "A2270", "A2428", "A2429", "A2602", "A2603", "A2604"}],
     [size |-> "8.3\"", models |-> {"A2568", "A2569", "A2567"}] >>

\* modelSizeMap[model]: "" stands for undefined
RECURSIVE SizeOfModel(_, _)
SizeOfModel(model, k) ==
  IF k > Len(modelSizeMap) THEN ""
  ELSE IF model \in modelSizeMap[k].models THEN modelSizeMap[k].size
  ELSE SizeOfModel(model, k + 1)
modelSizeLookup(model) ==
  IF model \in ObjectPrototypeKeys THEN ObjectFn ELSE SizeOfModel(model, 1)

\* the patterns of sizeMatches, in order; each pattern ends in optional parts
\* only, so it matches exactly when the processor text contains its digits
sizeMatches ==
  << [digits |-> {"27"}, size |-> "27\""],
     [digits |-> {"24"}, size |-> "24\""],
     [digits |-> {"215", "21.5"}, size |-> "21.5\""],
     [digits |-> {"16"}, size |-> "16\""],
     [digits |-> {"15"}, size |-> "15\""],
     [digits |-> {"14"}, size |-> "14\""],
     [digits |-> {"13"}, size |-> "13\""],
     [digits |-> {"129", "12.9"}, size |-> "12.9\""],
     [digits |-> {"11"}, size |-> "11\""],
     [digits |-> {"109", "10.9"}, size |-> "10.9\""],
     [digits |-> {"105", "10.5"}, size |-> "10.5\""],
     [digits |-> {"102", "10.2"}, size |-> "10.2\""],
     [digits |-> {"97", "9.7"}, size |-> "9.7\""],
     [digits |-> {"83", "8.3"}, size |-> "8.3\""] >>

\* the size of the first pattern, from pattern k on, that matches; "" if none
RECURSIVE SizeFromPatterns(_, _)
SizeFromPatterns(processor, k) ==
  IF k > Len(sizeMatches) THEN ""
  ELSE IF \E d \in sizeMatches[k].digits : Includes(processor, d)
  THEN sizeMatches[k].size
  ELSE SizeFromPatterns(processor, k + 1)

\* lines 1329-1355: the defaults drawn from the lower-cased processor text
DefaultSize(processorLower) ==
  IF Includes(processorLower, "imac")
  THEN (IF \E chip \in {"m1", "m3", "m4"} : Includes(processorLower, chip)
        THEN "24\"" ELSE "27\"")
  ELSE IF Includes(processorLower, "max") THEN "16\""
  ELSE IF Includes(processorLower, "pro") /\ ~Includes(processorLower, "air")
  THEN "14\""
  ELSE IF Includes(processorLower, "air") THEN "13\""
  ELSE IF Includes(processorLower, "ipad")
  THEN (IF Includes(processorLower, "pro") THEN "11\""
        ELSE IF Includes(processorLower, "air") THEN "10.9\""
        ELSE IF Includes(processorLower, "mini") THEN "8.3\""
        ELSE "10.2\"")
  ELSE "13\""

extractDisplaySize(model, processor) ==
  OrElse(IF model # "" THEN modelSizeLookup(model) ELSE "",
         OrElse(SizeFromPatterns(processor, 1),
                DefaultSize(ToLowerCase(processor))))

\* /(20\d{2})/ at position i of s
YearAt(s, i) ==
  /\ Sub(s, i, i + 1) = "20"
  /\ IsDigit(Ch(s, i + 2))
  /\ IsDigit(Ch(s, i + 3))
YearStarts(s, i) == {j \in i..Len(s) : YearAt(s, j)}
FirstYear(s, i) ==
  IF YearStarts(s, i) = {} THEN ""
  ELSE Sub(s, MinOf(YearStarts(s, i)), MinOf(YearStarts(s, i)) + 3)
extractYear(processor, model) == FirstYear(processor \o " " \o model, 1)

estimateYear(processor) ==
  IF Includes(processor, "M3") THEN "2023"
  ELSE IF Includes(processor, "M2") THEN "2022"
  ELSE IF Includes(processor, "M1") THEN "2020"
  ELSE IF Includes(processor, "Intel") THEN "2019"
  ELSE "2022"

determineDefaultSize(productType, processor) ==
  IF Includes(processor, "16") THEN "16\""
  ELSE IF Includes(processor, "15") THEN "15\""
  ELSE IF Includes(processor, "14") THEN "14\""
  ELSE IF Includes(processor, "13") THEN "13\""
  ELSE IF productType = "MacBook Pro" THEN "16\""
  ELSE IF productType \in {"MacBook Air", "MacBook"} THEN "13\""
  ELSE IF productType = "iMac" THEN "24\""
  ELSE ""

determineIPadTypeAdvanced(model) ==
  LET hit == FirstIncluded(ToLowerCase(model),
                           << "ipad pro", "ipad air", "ipad mini" >>, 1)
  IN CASE hit = "ipad pro" -> "iPad Pro"
       [] hit = "ipad air" -> "iPad Air"
       [] hit = "ipad mini" -> "iPad Mini"
       [] OTHER -> "iPad"

determineIPhoneModelAdvanced(model) ==
  LET hit == FirstIncluded(ToLowerCase(model),
               << "iphone 15", "iphone 14", "iphone 13", "iphone 12",
                  "iphone 11", "iphone se" >>, 1)
  IN CASE hit = "iphone 15" -> "iPhone 15"
       [] hit = "iphone 14" -> "iPhone 14"
       [] hit = "iphone 13" -> "iPhone 13"
       [] hit = "iphone 12" -> "iPhone 12"
       [] hit = "iphone 11" -> "iPhone 11"
       [] hit = "iphone se" -> "iPhone SE"
       [] OTHER -> "iPhone"

\* /(\d+(?:\.\d+)?)["\s]?(?:inch)?/i matched at the first digit, position p
IPadSizeAt(combined, p, whole) ==
  IF p = 0 THEN "10.9\""
  ELSE whole
       \o (IF Ch(combined, p + Len(whole)) = "."
              /\ DigitsAt(combined, p + Len(whole) + 1) # ""
           THEN "." \o DigitsAt(combined, p + Len(whole) + 1) ELSE "")
       \o "\""
IPadSizeIn(combined, p) == IPadSizeAt(combined, p, DigitsAt(combined, p))
IPadSizeOf(combined) == IPadSizeIn(combined, FirstDigitPos(combined))
extractIPadSize(model, processor) == IPadSizeOf(model \o " " \o processor)

getIPhoneDisplaySize(iphoneModel) ==
  IF iphoneModel = "iPhone SE" THEN "4.7\"" ELSE "6.1\""

estimateIPhoneYear(iphoneModel) ==
  IF iphoneModel = "iPhone 15" THEN "2023"
  ELSE IF iphoneModel = "iPhone 14" THEN "2022"
  ELSE IF iphoneModel = "iPhone 13" THEN "2021"
  ELSE IF iphoneModel = "iPhone 12" THEN "2020"
  ELSE IF iphoneModel = "iPhone 11" THEN "2019"
  ELSE "2022"

\* The result of the classifier.  null is written as the record whose
\* productType is empty (no branch of the classifier gives an empty type).
ProductInfo(productType, displaySize, processor, storage, memory, year, category, deviceFamily) ==
  [productType |-> productType, displaySize |-> displaySize,
   processor |-> processor, storage |-> storage, memory |-> memory,
   year |-> year, category |-> category, deviceFamily |-> deviceFamily]

Null == ProductInfo("", "", "", "", "", "", "", "")

\* the detection chain of analyzeProductAdvanced: which return statement is
\* taken ("" for the final return null)
DetectedBranch(combinedText, categoryLower, processorLower, brandLower) ==
  IF \/ Includes(combinedText, "macbook pro")
     \/ (Includes(combinedText, "laptop") /\ Includes(combinedText, "pro"))
     \/ (Includes(categoryLower, "laptop") /\ Includes(processorLower, "pro"))
  THEN "MacBook Pro"
  ELSE IF \/ Includes(combinedText, "macbook air")
          \/ (Includes(combinedText, "macbook") /\ Includes(combinedText, "air"))
          \/ Includes(categoryLower, "macbook air")
  THEN "MacBook Air"
  ELSE IF \/ Includes(combinedText, "macbook")
          \/ (Includes(categoryLower, "laptop") /\ Includes(brandLower, "apple"))
  THEN "MacBook"
  ELSE IF Includes(combinedText, "ipad") \/ Includes(categoryLower, "tablet")
  THEN "iPad"
  ELSE IF Includes(combinedText, "iphone") \/ Includes(categoryLower, "phone")
  THEN "iPhone"
  ELSE IF Includes(combinedText, "imac")
  THEN "iMac"
  ELSE IF \/ Includes(combinedText, "airpods") \/ Includes(combinedText, "airpod")
          \/ Includes(categoryLower, "accessories")
          \/ Includes(combinedText, "magic") \/ Includes(combinedText, "adapter")
          \/ Includes(combinedText, "cable")
  THEN "Accessory"
  ELSE ""

accessoryType(combinedText) ==
  IF Includes(combinedText, "airpods") THEN "AirPods"
  ELSE IF Includes(combinedText, "magic mouse") THEN "Magic Mouse"
  ELSE IF Includes(combinedText, "magic keyboard") THEN "Magic Keyboard"
  ELSE "Apple Accessory"

\* the object returned by the branch taken, from the values its fields call for
BranchInfo(branch, model, processor, combinedText, size, processorName, storage, memory, year, iphoneModel) ==
  CASE branch \in {"MacBook Pro", "MacBook Air"} ->
         ProductInfo(branch, OrElse(size, determineDefaultSize(branch, processor)),
                     processorName, storage, memory,
                     OrElse(year, estimateYear(processor)), "Laptops", "Mac")
    [] branch = "MacBook" ->
         ProductInfo("MacBook", OrElse(size, "13\""), processorName, storage,
                     memory, OrElse(year, estimateYear(processor)),
                     "Laptops", "Mac")
    [] branch = "iPad" ->
         ProductInfo(determineIPadTypeAdvanced(model),
                     extractIPadSize(model, processor), processorName, storage,
                     memory, OrElse(year, estimateYear(processor)),
                     "Tablets", "iPad")
    [] branch = "iPhone" ->
         ProductInfo(iphoneModel, getIPhoneDisplaySize(iphoneModel),
                     processorName, storage, "",
                     OrElse(year, estimateIPhoneYear(iphoneModel)),
                     "Phones", "iPhone")
    [] branch = "iMac" ->
         ProductInfo("iMac", OrElse(size, "24\""), processorName, storage,
                     memory, OrElse(year, estimateYear(processor)),
                     "Desktops", "Mac")
    [] branch = "Accessory" ->
         ProductInfo(accessoryType(combinedText), "", "", "", "",
                     OrElse(year, "2022"), "Accessories", "Apple Accessory")
    [] OTHER -> Null

AnalyzeFields(model, category, processor, brand, storage, memory) ==
  BranchInfo(
    DetectedBranch(
      ToLowerCase(model \o " " \o category \o " " \o processor \o " " \o brand),
      ToLowerCase(category), ToLowerCase(processor), ToLowerCase(brand)),
    model, processor,
    ToLowerCase(model \o " " \o category \o " " \o processor \o " " \o brand),
    extractDisplaySize(model, processor), extractProcessorDetails(processor),
    standardizeStorage(storage), standardizeMemory(memory),
    extractYear(processor, model), determineIPhoneModelAdvanced(model))

analyzeProductAdvanced(item) ==
  AnalyzeFields(Trim(item.Model), Trim(item.Category), Trim(item.Processor),
                Trim(item.Brand), Trim(item.Storage), Trim(item.Memory))

(***************************************************************************)
(* Grouping key, title and variant attributes                              *)
(***************************************************************************)
IdentifierChars == UpperChars \o LowerChars \o DigitChars \o "_"

createAdvancedGroupingKey(productInfo) ==
  KeepChars(
    JoinNonEmpty(<< productInfo.productType, productInfo.displaySize,
                    productInfo.processor, productInfo.storage,
                    productInfo.memory, productInfo.year >>, "_"),
    IdentifierChars)

\* a title that is never cut
KeepTitle(title) == title

\* line 1500: titles longer than 60 characters are cut to 57 and "..."
TruncateTitle(title) ==
  IF Len(title) > 60 THEN Sub(title, 1, 57) \o "..." ELSE title

\* lines 1470-1497: the title before it is cut
FullTitleOf(productInfo, cleanProcessor, specs) ==
  "Refurbished " \o productInfo.productType
  \o (IF productInfo.displaySize # ""
      THEN " " \o productInfo.displaySize ELSE "")
  \o (IF productInfo.processor # "" THEN " " \o cleanProcessor ELSE "")
  \o (IF productInfo.year # "" THEN " " \o productInfo.year ELSE "")
  \o (IF specs # "" THEN " " \o specs ELSE "")

FullTitle(productInfo) ==
  FullTitleOf(productInfo,
    ReplaceFirst(ReplaceFirst(ReplaceFirst(productInfo.processor,
      "Apple ", ""), " chip", ""), " Chip", ""),
    JoinNonEmpty(<< productInfo.storage, productInfo.memory >>, " "))

SEOTitleOf(productInfo, cleanProcessor, specs) ==
  TruncateTitle(FullTitleOf(productInfo, cleanProcessor, specs))

createAdvancedSEOTitle(productInfo) ==
  SEOTitleOf(productInfo,
    ReplaceFirst(ReplaceFirst(ReplaceFirst(productInfo.processor,
      "Apple ", ""), " chip", ""), " Chip", ""),
    JoinNonEmpty(<< productInfo.storage, productInfo.memory >>, " "))

\* createSEOOptimizedHandle calls productInfo.displaySize?.replace: a display
\* size that is not a string has no replace method and the call throws
createSEOOptimizedHandleThrows(productInfo) == productInfo.displaySize = ObjectFn

colorMap ==
  << <<"space grey", "Space Gray">>, <<"space gray", "Space Gray">>,
     <<"spacegrey", "Space Gray">>, <<"spacegray", "Space Gray">>,
     <<"silver", "Silver">>, <<"gold", "Gold">>, <<"rose gold", "Rose Gold">>,
     <<"midnight", "Midnight">>, <<"starlight", "Starlight">>,
     <<"default", "Space Gray">> >>

\* colorMap[cleanedColor], from entry k on: "" stands for undefined
RECURSIVE colorMapLookup(_, _)
colorMapLookup(cleanedColor, k) ==
  IF k > Len(colorMap) THEN ""
  ELSE IF colorMap[k][1] = cleanedColor THEN colorMap[k][2]
  ELSE colorMapLookup(cleanedColor, k + 1)

\* colorMap is an object literal: a key of Object.prototype reads the
\* inherited member, which is not a string
ColorOf(trimmed, cleanedColor) ==
  IF cleanedColor \in ObjectPrototypeKeys THEN ObjectFn
  ELSE OrElse(colorMapLookup(cleanedColor, 1), trimmed)

cleanColor(color) ==
  IF color = "" THEN "Space Gray"
  ELSE ColorOf(Trim(color), Trim(ToLowerCase(color)))

\* conditionStr.match(/[ABCD]/): the first grade letter from position i on
RECURSIVE FirstGrade(_, _)
FirstGrade(conditionStr, i) ==
  IF i > Len(conditionStr) THEN ""
  ELSE IF Includes("ABCD", Ch(conditionStr, i)) THEN Ch(conditionStr, i)
  ELSE FirstGrade(conditionStr, i + 1)

cleanCondition(condition) ==
  IF condition = "" THEN "A"
  ELSE OrElse(FirstGrade(Trim(ToUpperCase(condition)), 1), "A")

\* the rows of the model are ASCII, so the accented spelling the source also
\* looks for cannot occur
KeyboardLayoutOf(allText) ==
  IF \/ Includes(allText, "french") \/ Includes(allText, "fr-ca")
     \/ Includes(allText, "canadian french")
  THEN "French Canadian" ELSE "English"

determineKeyboardLayout(item) ==
  KeyboardLayoutOf(ToLowerCase(item.Model \o " " \o item.Comments \o " "
                               \o item.Processor))

\* [...new Set(names)]: the names in order of first appearance
RECURSIVE Unique(_, _)
Unique(names, seen) ==
  IF names = << >> THEN seen
  ELSE IF \E k \in 1..Len(seen) : seen[k] = Head(names)
  THEN Unique(Tail(names), seen)
  ELSE Unique(Tail(names), Append(seen, Head(names)))

chipCollection(hit) ==
  CASE hit = "M3" -> << "M3 Chip Devices" >>
    [] hit = "M2" -> << "M2 Chip Devices" >>
    [] hit = "M1" -> << "M1 Chip Devices" >>
    [] hit = "Intel" -> << "Intel Mac" >>
    [] OTHER -> << >>

\* a string of digits that are not all zeros
IsPositiveDigits(digits) == \E k \in 1..Len(digits) : Sub(digits, k, k) # "0"

\* lines 2039-2044: parseFloat(displaySize) is whole + fraction, read at the
\* start of the string; without a leading digit it is NaN
screenCollection(whole, fraction) ==
  IF whole = "" THEN << >>
  ELSE IF ParseDigits(whole, 0) >= 15 THEN << "Large Screen" >>
  ELSE IF ParseDigits(whole, 0) >= 13 THEN << "Standard Screen" >>
  ELSE IF IsPositiveDigits(whole) \/ IsPositiveDigits(fraction)
  THEN << "Compact" >>
  ELSE << >>

FractionAt(s, i) == IF Ch(s, i) = "." THEN DigitsAt(s, i + 1) ELSE ""

createAdvancedCollections(productInfo) ==
  Unique(
    << productInfo.productType, productInfo.category >>
    \o (IF productInfo.deviceFamily # ""
        THEN << productInfo.deviceFamily >> ELSE << >>)
    \o chipCollection(FirstIncluded(productInfo.processor,
                                    << "M3", "M2", "M1", "Intel" >>, 1))
    \o (IF productInfo.year # ""
        THEN << productInfo.year \o " Models" >> ELSE << >>)
    \o screenCollection(
         DigitsAt(productInfo.displaySize, 1),
         FractionAt(productInfo.displaySize,
                    Len(DigitsAt(productInfo.displaySize, 1)) + 1))
    \o << "Certified Refurbished", "Apple" >>,
    << >>)

(***************************************************************************)
(* Prices                                                                  *)
(* Prices are whole numbers; a multiplier 0.70 is kept as 70 hundredths.   *)
(***************************************************************************)
\* lines 1554-1576
retailPrices ==
  "MacBook Pro" :> 2799 @@ "MacBook Air" :> 1599 @@ "MacBook" :> 1999 @@
  "iPad Pro" :> 1399 @@ "iPad Air" :> 899 @@ "iPad" :> 579 @@
  "iPad Mini" :> 699 @@ "iPhone 15" :> 1129 @@ "iPhone 14" :> 999 @@
  "iPhone 13" :> 849 @@ "iPhone 12" :> 699 @@ "iPhone 11" :> 579 @@
  "iPhone SE" :> 579 @@ "iPhone" :> 849 @@ "iMac" :> 1799 @@
  "Mac Studio" :> 2799 @@ "Mac Mini" :> 899 @@ "AirPods" :> 229 @@
  "Magic Mouse" :> 129 @@ "Magic Keyboard" :> 229 @@ "Apple Accessory" :> 129

\* lines 1969-1985
basePrices ==
  "MacBook Pro" :> 2299 @@ "MacBook Air" :> 1399 @@ "MacBook" :> 1599 @@
  "iPad Pro" :> 1149 @@ "iPad Air" :> 779 @@ "iPad" :> 449 @@
  "iPad Mini" :> 649 @@ "iPhone" :> 899 @@ "iMac" :> 1699 @@
  "Mac Studio" :> 2499 @@ "Mac Mini" :> 799 @@ "AirPods" :> 199 @@
  "Magic Mouse" :> 99 @@ "Magic Keyboard" :> 199 @@ "Apple Accessory" :> 99

\* table[productType] || 999
PriceOfType(table, productType) ==
  IF productType \in DOMAIN table THEN table[productType] ELSE 999

\* the three steps of an adjustment by a parsed number: the first threshold
\* reached, from the highest, gives the amount
Adjustment(n, steps) ==
  IF n >= steps[1].from THEN steps[1].add
  ELSE IF n >= steps[2].from THEN steps[2].add
  ELSE IF n >= steps[3].from THEN steps[3].add
  ELSE 0

\* the adjustment by processor: the first of Max, Pro, Ultra it includes
ProcessorAdjustment(processor, max, pro, ultra) ==
  IF Includes(processor, "Max") THEN max
  ELSE IF Includes(processor, "Pro") THEN pro
  ELSE IF Includes(processor, "Ultra") THEN ultra
  ELSE 0

\* lines 1601-1605: parseFloat(displaySize) against 16 and 15; the whole
\* part decides, and a size that does not start with a digit is below both
DisplayAdjustment(displaySize) ==
  IF DigitsAt(displaySize, 1) = "" THEN 0
  ELSE IF ParseDigits(DigitsAt(displaySize, 1), 0) >= 16 THEN 300
  ELSE IF ParseDigits(DigitsAt(displaySize, 1), 0) >= 15 THEN 200
  ELSE 0

\* lines 1552-1608
calculateRetailPrice(productInfo) ==
  PriceOfType(retailPrices, productInfo.productType)
  + Adjustment(ParseInt(productInfo.storage),
               << [from |-> 2000, add |-> 1000], [from |-> 1000, add |-> 500],
                  [from |-> 512, add |-> 300] >>)
  + Adjustment(ParseInt(productInfo.memory),
               << [from |-> 64, add |-> 1400], [from |-> 32, add |-> 800],
                  [from |-> 16, add |-> 500] >>)
  + ProcessorAdjustment(productInfo.processor, 1000, 500, 1500)
  + DisplayAdjustment(productInfo.displaySize)

\* lines 1968-2010
calculateAdvancedPricing(productInfo) ==
  PriceOfType(basePrices, productInfo.productType)
  + Adjustment(ParseInt(productInfo.storage),
               << [from |-> 2000, add |-> 800], [from |-> 1000, add |-> 400],
                  [from |-> 512, add |-> 200] >>)
  + Adjustment(ParseInt(productInfo.memory),
               << [from |-> 64, add |-> 1000], [from |-> 32, add |-> 600],
                  [from |-> 16, add |-> 400] >>)
  + ProcessorAdjustment(productInfo.processor, 800, 400, 1200)

\* lines 2171-2176, in hundredths
conditionMultipliers == "A" :> 70 @@ "B" :> 68 @@ "C" :> 66 @@ "D" :> 61

\* conditionMultipliers[condition] || 0.70
MultiplierOf(condition) ==
  IF condition \in DOMAIN conditionMultipliers
  THEN conditionMultipliers[condition] ELSE 70

\* Math.round(retailPrice * multiplier): the product is never half way
\* between two whole numbers for the prices of the tables
RoundHundredths(n) == (n + 50) \div 100

\* lines 2169-2179
calculateVariantPrice(productInfo, condition) ==
  RoundHundredths(calculateRetailPrice(productInfo) * MultiplierOf(condition))

\* lines 2181-2184
calculateComparePrice(productInfo, condition) ==
  calculateRetailPrice(productInfo)

(***************************************************************************)
(* Handle, tags and descriptions                                           *)
(***************************************************************************)
\* the number of spaces of s that end just before position i
RECURSIVE SpacesBefore(_, _)
SpacesBefore(s, i) ==
  IF i > 1 /\ Ch(s, i - 1) = " " THEN 1 + SpacesBefore(s, i - 1) ELSE 0

\* s.replace(/\s+/g, rep): the first space of a run becomes rep, the others go
SpaceReplacedAt(s, rep, i) ==
  IF Ch(s, i) # " " THEN Ch(s, i)
  ELSE IF i > 1 /\ Ch(s, i - 1) = " " THEN "" ELSE rep
ReplaceSpaces(s, rep) ==
  ConcatAll([i \in 1..Len(s) |-> SpaceReplacedAt(s, rep, i)], 1, Len(s))

\* position i of s lies in an occurrence of word that starts at position j
WordCovers(s, word, j, i) ==
  j >= 1 /\ j <= i /\ i < j + Len(word) /\ Sub(s, j, j + Len(word) - 1) = word

\* s.replace(/word\s+/g, ''): position i lies in a match, either in the word
\* or in the run of spaces after it
InWordSpaces(s, word, i) ==
  \/ \E j \in (i - Len(word) + 1)..i :
       WordCovers(s, word, j, i) /\ Ch(s, j + Len(word)) = " "
  \/ /\ Ch(s, i) = " "
     /\ WordCovers(s, word, i - SpacesBefore(s, i) - Len(word),
                   i - SpacesBefore(s, i) - 1)
RemoveWordSpaces(s, word) ==
  ConcatAll([i \in 1..Len(s) |->
               IF InWordSpaces(s, word, i) THEN "" ELSE Ch(s, i)], 1, Len(s))

\* s.replace(/\s+word/g, ''): position i lies in a match, either in the run
\* of spaces or in the word after it
InSpacesWord(s, word, i) ==
  \/ \E j \in (i - Len(word) + 1)..i :
       WordCovers(s, word, j, i) /\ j > 1 /\ Ch(s, j - 1) = " "
  \/ /\ Ch(s, i) = " "
     /\ WordCovers(s, word, i + SpacesAt(s, i), i + SpacesAt(s, i))
RemoveSpacesWord(s, word) ==
  ConcatAll([i \in 1..Len(s) |->
               IF InSpacesWord(s, word, i) THEN "" ELSE Ch(s, i)], 1, Len(s))

\* s.replace(/-+/g, '-'): the first hyphen of a run stays, the others go
HyphenCollapsedAt(s, i) ==
  IF Ch(s, i) = "-" /\ i > 1 /\ Ch(s, i - 1) = "-" THEN "" ELSE Ch(s, i)
CollapseHyphens(s) ==
  ConcatAll([i \in 1..Len(s) |-> HyphenCollapsedAt(s, i)], 1, Len(s))

\* s.replace(/^-|-$/g, ''): a hyphen at the start and a hyphen at the end
StripHyphens(s) ==
  Sub(s, IF Ch(s, 1) = "-" THEN 2 ELSE 1,
         IF Len(s) > 1 /\ Ch(s, Len(s)) = "-" THEN Len(s) - 1 ELSE Len(s))

HandleChars == LowerChars \o DigitChars \o "-"

\* lines 2192-2195: the processor as it enters the handle
HandleProcessor(processor) ==
  ReplaceSpaces(
    RemoveSpacesWord(RemoveWordSpaces(ToLowerCase(processor), "apple"),
                     "chip"),
    "-")

\* lines 2188-2199: the components, the empty ones left out, joined by '-'
HandleComponents(productInfo) ==
  JoinNonEmpty(
    << "refurbished",
       ReplaceSpaces(ToLowerCase(productInfo.productType), "-"),
       KeepChars(productInfo.displaySize, DigitChars \o "."),
       HandleProcessor(productInfo.processor),
       productInfo.year,
       ToLowerCase(productInfo.storage),
       ToLowerCase(productInfo.memory) >>,
    "-")

\* lines 2201-2206, for a display size that is a string
createSEOOptimizedHandle(productInfo) ==
  Sub(StripHyphens(CollapseHyphens(
        KeepChars(HandleComponents(productInfo), HandleChars))),
      1, 255)

\* lines 2061-2079: the tags the processor gives
ProcessorTags(processor) ==
  << ReplaceSpaces(ToLowerCase(processor), "-") >>
  \o (IF FirstIncluded(processor, << "M4", "M3", "M2", "M1" >>, 1) # ""
      THEN << ToLowerCase(FirstIncluded(processor,
                                        << "M4", "M3", "M2", "M1" >>, 1))
              \o "-chip" >>
      ELSE << >>)
  \o (IF FirstIncluded(processor, << "Ultra", "Max", "Pro" >>, 1) # ""
      THEN << ToLowerCase(FirstIncluded(processor,
                                        << "Ultra", "Max", "Pro" >>, 1))
              \o "-chip" >>
      ELSE << >>)
  \o (IF FirstIncluded(processor, << "M1", "M2", "M3", "M4" >>, 1) # ""
      THEN << "apple-silicon" >>
      ELSE IF Includes(processor, "Intel") THEN << "intel" >>
      ELSE << >>)

\* lines 2054-2109; productInfo has no keyboardLayout, so the keyboard tags
\* of lines 2089-2095 are never pushed
createAdvancedTags(productInfo) ==
  << "refurbished", "apple", "certified",
     ReplaceSpaces(ToLowerCase(productInfo.productType), "-") >>
  \o (IF productInfo.processor # ""
      THEN ProcessorTags(productInfo.processor) ELSE << >>)
  \o (IF productInfo.storage # ""
      THEN << ToLowerCase(productInfo.storage) >> ELSE << >>)
  \o (IF productInfo.memory # ""
      THEN << ReplaceFirst(ToLowerCase(productInfo.memory), "gb", "gb-ram") >>
      ELSE << >>)
  \o (IF productInfo.displaySize # ""
      THEN << KeepChars(ToLowerCase(productInfo.displaySize),
                        UpperChars \o LowerChars \o DigitChars \o "_") >>
      ELSE << >>)
  \o (IF productInfo.year # "" THEN << productInfo.year >> ELSE << >>)
  \o (IF productInfo.deviceFamily # ""
      THEN << ReplaceSpaces(ToLowerCase(productInfo.deviceFamily), "-") >>
      ELSE << >>)
  \o << ToLowerCase(productInfo.category), "canada", "canadian",
        "macbook-depot" >>

\* gradeCount[grade] = (gradeCount[grade] || 0) + quantity; the object is
\* kept as a sequence in insertion order
AddCount(gradeCount, grade, quantity) ==
  IF \E k \in 1..Len(gradeCount) : gradeCount[k].key = grade
  THEN [k \in 1..Len(gradeCount) |->
          IF gradeCount[k].key = grade
          THEN [key |-> grade, count |-> gradeCount[k].count + quantity]
          ELSE gradeCount[k]]
  ELSE Append(gradeCount, [key |-> grade, count |-> quantity])

RECURSIVE CountGrades(_, _)
CountGrades(variants, gradeCount) ==
  IF variants = << >> THEN gradeCount
  ELSE CountGrades(Tail(variants),
                   AddCount(gradeCount, Head(variants).condition,
                            Head(variants).quantity))

\* the reduction with the comparison >=, which keeps the earlier of two
\* grades with the same number of units
RECURSIVE MostUnitsFirst(_, _, _)
MostUnitsFirst(gradeCount, a, k) ==
  IF k > Len(gradeCount) THEN gradeCount[a].key
  ELSE MostUnitsFirst(gradeCount,
                      IF gradeCount[a].count >= gradeCount[k].count THEN a
                      ELSE k,
                      k + 1)

\* Object.keys(gradeCount).reduce((a, b) => gradeCount[a] > gradeCount[b] ?
\* a : b): a is the entry kept so far, k the next entry
RECURSIVE MostUnits(_, _, _)
MostUnits(gradeCount, a, k) ==
  IF k > Len(gradeCount) THEN gradeCount[a].key
  ELSE MostUnits(gradeCount,
                 IF gradeCount[a].count > gradeCount[k].count THEN a ELSE k,
                 k + 1)

\* lines 1505-1516 and 1655-1667
PrimaryGrade(variants) ==
  IF variants = << >> THEN "A"
  ELSE MostUnits(CountGrades(variants, << >>), 1, 2)

\* line 1519
discounts == "A" :> "30" @@ "B" :> "32" @@ "C" :> "34" @@ "D" :> "39"

\* lines 1527-1542
SEODescriptionText(grade, productName, processorShort) ==
  CASE grade = "A" ->
         "Certified refurbished " \o productName \o " " \o processorShort
         \o " like-new condition. Save " \o discounts[grade]
         \o "% vs retail. 90-day warranty, free North American shipping. Shop premium quality!"
    [] grade = "B" ->
         "Refurbished " \o productName \o " " \o processorShort
         \o " excellent condition. Save " \o discounts[grade]
         \o "% vs retail. 90-day warranty, free shipping across North America. Great value today!"
    [] grade = "C" ->
         "Save " \o discounts[grade] \o "% on refurbished " \o productName
         \o " " \o processorShort
         \o ". Fully tested, 90-day warranty, free North American shipping. Budget-friendly Apple quality - order now!"
    [] grade = "D" ->
         "Maximum savings! " \o productName \o " " \o processorShort
         \o " refurbished - save " \o discounts[grade]
         \o "% vs retail. 90-day warranty included. Best value Apple quality - shop now!"
    [] OTHER ->
         "Certified refurbished " \o productName \o " " \o processorShort
         \o ". Save up to 39% vs retail. 90-day warranty, free North American shipping. Shop quality Apple devices!"

\* lines 1545-1547
TruncateDescription(description) ==
  IF Len(description) > 160 THEN Sub(description, 1, 157) \o "..."
  ELSE description

\* lines 1503-1550
createAdvancedSEODescription(productInfo, variants) ==
  TruncateDescription(
    SEODescriptionText(
      PrimaryGrade(variants),
      productInfo.productType
        \o (IF productInfo.displaySize # ""
            THEN " " \o productInfo.displaySize ELSE ""),
      OrElse(ReplaceFirst(ReplaceFirst(productInfo.processor, "Apple ", ""),
                          " chip", ""),
             "M2")))

\* lines 1614-1627
KeyboardInfo(variants) ==
  IF /\ \E v \in 1..Len(variants) : variants[v].keyboardLayout = "English"
     /\ \E v \in 1..Len(variants) :
          variants[v].keyboardLayout = "French Canadian"
  THEN "Available in English and French Canadian keyboards"
  ELSE IF \E v \in 1..Len(variants) :
            variants[v].keyboardLayout = "French Canadian"
  THEN "French Canadian keyboard"
  ELSE "English keyboard"

\* lines 1630-1639: the lowest price among the variants of the grade; 0
\* stands for an entry that was never written
RECURSIVE ActualPrice(_, _, _)
ActualPrice(variants, grade, lowest) ==
  IF variants = << >> THEN lowest
  ELSE ActualPrice(
         Tail(variants), grade,
         IF /\ Head(variants).condition = grade
            /\ (lowest = 0 \/ Head(variants).price < lowest)
         THEN Head(variants).price ELSE lowest)

\* lines 1642-1645: actualPrices[grade] || calculateVariantPrice(...)
GradePriceOf(productInfo, variants, grade) ==
  IF ActualPrice(variants, grade, 0) # 0 THEN ActualPrice(variants, grade, 0)
  ELSE calculateVariantPrice(productInfo, grade)

\* Math.min over a set of prices
MinOfPrices(prices) == CHOOSE p \in prices : \A q \in prices : p <= q

\* lines 1651-1652
LowestPrice(productInfo, variants) ==
  IF { ActualPrice(variants, g, 0) : g \in {"A", "B", "C", "D"} } \ {0} # {}
  THEN MinOfPrices({ ActualPrice(variants, g, 0) :
                       g \in {"A", "B", "C", "D"} } \ {0})
  ELSE GradePriceOf(productInfo, variants, "D")

\* lines 1674-1681
AudienceAndUse(productType) ==
  IF Includes(productType, "Pro") THEN "professionals"
  ELSE IF Includes(productType, "Air") THEN "students"
  ELSE "enthusiasts"

\* lines 1684-1693: the questions of the pool, in order; the answer to the
\* last one carries keyboardInfo
faqPool(keyboardInfo) ==
  << "Is this genuine Apple hardware?",
     "What does Grade A, B, C, D mean?",
     "Do I get a warranty?",
     "Can I return if not satisfied?",
     "What's included in the box?",
     "How long will this last?",
     "What's your refurbishment process?",
     "What keyboard options are available? " \o keyboardInfo >>

\* line 1695: [...faqPool].sort(() => 0.5 - Math.random()) can give back any
\* order of the pool, the answers of the comparator being random.  The
\* orders drawn here are the pool moved round by 0..MaxShift places.
MaxShift == 1

ShuffledPool(pool, shift) ==
  [k \in 1..Len(pool) |-> pool[((k - 1 + shift) % Len(pool)) + 1]]

\* line 1695: .slice(0, 4)
SelectedFAQs(pool, shift) == SubSeq(ShuffledPool(pool, shift), 1, 4)

\* lines 1610-1966: the description is a fixed text around these values
createAdvancedProductDescription(productInfo, variants, shift) ==
  [keyboardInfo |-> KeyboardInfo(variants),
   gradePrices |-> [g \in {"A", "B", "C", "D"} |->
                      GradePriceOf(productInfo, variants, g)],
   \* Math.round(gradeAPrice / 0.70)
   dynamicRetailPrice |->
     (20 * GradePriceOf(productInfo, variants, "A") + 7) \div 14,
   lowestPrice |-> LowestPrice(productInfo, variants),
   primaryGrade |-> PrimaryGrade(variants),
   primaryPrice |-> GradePriceOf(productInfo, variants, PrimaryGrade(variants)),
   audienceAndUse |-> AudienceAndUse(productInfo.productType),
   selectedFAQs |-> SelectedFAQs(faqPool(KeyboardInfo(variants)), shift)]

\* the catalog content of a group, as lines 741-752 and 820-835 generate it
\* from the spec and the variants
CatalogContent(productInfo, variants, shift) ==
  [title |-> createAdvancedSEOTitle(productInfo),
   handle |-> createSEOOptimizedHandle(productInfo),
   tags |-> createAdvancedTags(productInfo),
   collections |-> createAdvancedCollections(productInfo),
   seoDescription |-> createAdvancedSEODescription(productInfo, variants),
   productDescription |->
     createAdvancedProductDescription(productInfo, variants, shift),
   basePrice |-> calculateAdvancedPricing(productInfo),
   retailPrice |-> calculateRetailPrice(productInfo),
   prices |-> [v \in 1..Len(variants) |->
                 [price |-> calculateVariantPrice(productInfo,
                                                  variants[v].condition),
                  compareAtPrice |->
                    calculateComparePrice(productInfo,
                                          variants[v].condition)]]]

\* createAdvancedSKU calls color.substring: a colour that is not a string has
\* no substring method and the call throws
createAdvancedSKUThrows(color) == color = ObjectFn

(***************************************************************************)
(* Rows                                                                    *)
(***************************************************************************)
Item(model, category, processor, brand, storage, memory, color, condition, comments, stock, serial) ==
  [Model |-> model, Category |-> category, Processor |-> processor,
   Brand |-> brand, Storage |-> storage, Memory |-> memory, Color |-> color,
   Condition |-> condition, Comments |-> comments, Stock |-> stock,
   Serial |-> serial]

\* a MacBook Pro 14" M2 512GB 16GB, grade A, Space Gray, English
RowA == Item("A2442", "MacBook Pro", "Apple M2", "Apple", "512GB", "16GB",
             "space grey", "A", "", "1001", "C02A1")
\* the same listing, grade B, Silver, French Canadian
RowB == Item("A2442", "MacBook Pro", "Apple M2", "Apple", "512 gb", "16",
             "Silver", "b", "French keyboard", "1002", "C02B2")
\* the same listing and variant as RowA, the serial number missing
RowE == Item("A2442", "MacBook Pro", "Apple M2", "Apple", "512GB", "16GB",
             "Space Gray", "A", "", "1003", "")
\* 16GB of storage and no memory / 16GB of memory and no storage
RowS16 == Item("A2442", "MacBook Pro", "Apple M2", "Apple", "16GB", "",
               "Space Gray", "A", "", "1004", "C02S4")
RowM16 == Item("A2442", "MacBook Pro", "Apple M2", "Apple", "", "16GB",
               "Space Gray", "A", "", "1005", "C02M5")
\* no category predicate matches
RowX == Item("XPS 13", "Laptop", "Core i5", "Dell", "256GB", "8GB",
             "Silver", "A", "", "1006", "DX6")
\* the colour is the name of an inherited property of colorMap
RowC == Item("A2442", "MacBook Pro", "Apple M2", "Apple", "512GB", "16GB",
             "Constructor", "A", "", "1007", "C02C7")
\* the model is the name of an inherited property of modelSizeMap
RowK == Item("constructor", "MacBook Pro", "Apple M2", "Apple", "512GB",
             "16GB", "Silver", "A", "", "1008", "C02K8")
\* two listings whose titles are cut to the same 60 characters
RowT8 == Item("", "MacBook Pro", "Experimental Silicon Engine", "Apple",
              "512GB", "8GB", "Silver", "A", "", "1009", "C02T9")
RowT16 == Item("", "MacBook Pro", "Experimental Silicon Engine", "Apple",
               "512GB", "16GB", "Silver", "A", "", "1010", "C02T0")

\* s repeated n times
RECURSIVE Repeat(_, _)
Repeat(s, n) == IF n = 0 THEN "" ELSE s \o Repeat(s, n - 1)

\* a listing whose processor text is 239 characters long, a space after
\* every third
RowH == Item("", "MacBook Pro", Repeat("gpu ", 60), "Apple", "512GB", "8GB",
             "Silver", "A", "", "1011", "C02H1")

\* RowA's listing with one terabyte of storage
RowTB == Item("A2442", "MacBook Pro", "Apple M2", "Apple", "1TB", "16GB",
              "Space Gray", "A", "", "1012", "C02TB")

SyncRows == {RowA, RowB, RowE, RowT8, RowT16}
GroupRows == {RowA, RowB, RowE, RowS16, RowM16, RowX, RowC, RowK}
ContentRows == {RowA, RowB, RowX, RowC, RowT8, RowH, RowTB}

\* what lines 718, 726, 741, 749 and 766-771 compute from one row
FactsOf(productInfo, color, condition, keyboardLayout) ==
  [productInfo |-> productInfo,
   groupKey |-> createAdvancedGroupingKey(productInfo),
   seoTitle |-> createAdvancedSEOTitle(productInfo),
   collections |-> createAdvancedCollections(productInfo),
   basePrice |-> calculateAdvancedPricing(productInfo),
   retailPrice |-> calculateRetailPrice(productInfo),
   color |-> color, condition |-> condition,
   keyboardLayout |-> keyboardLayout,
   variantKey |-> color \o "-" \o condition \o "-" \o keyboardLayout,
   price |-> calculateVariantPrice(productInfo, condition),
   compareAtPrice |-> calculateComparePrice(productInfo, condition)]

ItemFacts ==
  [item \in GroupRows \cup SyncRows \cup ContentRows |->
     FactsOf(analyzeProductAdvanced(item),
             cleanColor(OrElse(item.Color, "Space Gray")),
             cleanCondition(OrElse(item.Condition, "A")),
             determineKeyboardLayout(item))]

(***************************************************************************)
(* createProductGroups: one forEach iteration                              *)
(* productGroups and the variants of a group are JavaScript objects; the   *)
(* model keeps them as sequences in insertion order, each entry carrying   *)
(* its key.                                                                *)
(***************************************************************************)
HasKey(entries, key) == \E k \in 1..Len(entries) : entries[k].key = key
KeyIndex(entries, key) == CHOOSE k \in 1..Len(entries) : entries[k].key = key

\* lines 729-760, for the row whose facts are given
NewGroup(groupKey, facts) ==
  [key |-> groupKey,
   productType |-> facts.productInfo.productType,
   displaySize |-> facts.productInfo.displaySize,
   processor |-> facts.productInfo.processor,
   storage |-> facts.productInfo.storage,
   memory |-> facts.productInfo.memory,
   year |-> facts.productInfo.year,
   seoTitle |-> facts.seoTitle,
   basePrice |-> facts.basePrice,
   retailPrice |-> facts.retailPrice,
   collections |-> facts.collections,
   totalUnits |-> 0,
   variants |-> << >>,
   stockItems |-> << >>]

NewVariant(variantKey, color, condition, keyboardLayout, price, compareAtPrice) ==
  [key |-> variantKey, color |-> color, condition |-> condition,
   keyboardLayout |-> keyboardLayout, quantity |-> 0, stockItems |-> << >>,
   price |-> price, compareAtPrice |-> compareAtPrice]

StockItem(item, color, condition, keyboardLayout) ==
  [stockId |-> item.Stock, serialNumber |-> item.Serial,
   condition |-> condition, color |-> color,
   keyboardLayout |-> keyboardLayout, originalData |-> item]

\* lines 803-806: the unit goes into its variant and into its group
\* the unit is pushed and counted in its variant, not in the group's total
AddToVariantOnly(group, v, stockItem) ==
  [group EXCEPT
     !.variants[v].stockItems = Append(@, stockItem),
     !.variants[v].quantity = @ + 1,
     !.stockItems = Append(@, stockItem)]

AddToVariant(group, v, stockItem) ==
  [group EXCEPT
     !.variants[v].stockItems = Append(@, stockItem),
     !.variants[v].quantity = @ + 1,
     !.stockItems = Append(@, stockItem),
     !.totalUnits = @ + 1]

AddStockItem(group, variantKey, stockItem) ==
  AddToVariant(group, KeyIndex(group.variants, variantKey), stockItem)

\* The body of the forEach callback (lines 700-817) for one row: the groups
\* after the row, and how the callback ended: "rejected" by the return of
\* line 722, "raised" when an exception reached the catch of line 815 (what
\* was written before it stays written), or "added".
\* lines 774-806, for a row whose group is at position g of groups
AddToGroup(groups, g, item, facts) ==
  IF HasKey(groups[g].variants, facts.variantKey)
  THEN [outcome |-> "added",
        groups |-> [groups EXCEPT ![g] =
          AddStockItem(@, facts.variantKey,
            StockItem(item, facts.color, facts.condition, facts.keyboardLayout))]]
  ELSE IF createAdvancedSKUThrows(facts.color)
  THEN [outcome |-> "raised", groups |-> groups]
  ELSE [outcome |-> "added",
        groups |-> [groups EXCEPT ![g] =
          AddStockItem(
            [@ EXCEPT !.variants =
               Append(@, NewVariant(facts.variantKey, facts.color,
                                    facts.condition, facts.keyboardLayout,
                                    facts.price, facts.compareAtPrice))],
            facts.variantKey,
            StockItem(item, facts.color, facts.condition, facts.keyboardLayout))]]

\* a callback whose catch also discards the group of the row that raised
GroupStepDiscarding(groups, item, facts) ==
  IF facts.productInfo = Null THEN [outcome |-> "rejected", groups |-> groups]
  ELSE IF createSEOOptimizedHandleThrows(facts.productInfo)
          \/ createAdvancedSKUThrows(facts.color)
  THEN [outcome |-> "raised",
        groups |-> SelectSeq(groups, LAMBDA g : g.key # facts.groupKey)]
  ELSE IF HasKey(groups, facts.groupKey)
  THEN AddToGroup(groups, KeyIndex(groups, facts.groupKey), item, facts)
  ELSE AddToGroup(Append(groups, NewGroup(facts.groupKey, facts)),
                  Len(groups) + 1, item, facts)

\* lines 718-806, for a row with the given facts
GroupStep(groups, item, facts) ==
  IF facts.productInfo = Null THEN [outcome |-> "rejected", groups |-> groups]
  ELSE IF HasKey(groups, facts.groupKey)
  THEN AddToGroup(groups, KeyIndex(groups, facts.groupKey), item, facts)
  ELSE IF createSEOOptimizedHandleThrows(facts.productInfo)
  THEN [outcome |-> "raised", groups |-> groups]
  ELSE AddToGroup(Append(groups, NewGroup(facts.groupKey, facts)),
                   Len(groups) + 1, item, facts)

ItemStep(groups, item) == GroupStep(groups, item, ItemFacts[item])

ProcessItem(groups, item) == ItemStep(groups, item).groups

RECURSIVE SumTotalUnits(_)
SumTotalUnits(groups) ==
  IF groups = << >> THEN 0
  ELSE Head(groups).totalUnits + SumTotalUnits(Tail(groups))

\* the forEach loop of createProductGroups over a whole batch
RECURSIVE FoldItems(_, _)
FoldItems(groups, items) ==
  IF items = << >> THEN groups
  ELSE FoldItems(ProcessItem(groups, Head(items)), Tail(items))

(***************************************************************************)
(* Reconciler helpers                                                      *)
(***************************************************************************)
\* existingProducts.find(...): the position of the first product, from
\* position k on, whose title equals searchTitle after toLowerCase; 0 stands
\* for undefined
RECURSIVE FindTitle(_, _, _)
FindTitle(existingProducts, searchTitle, k) ==
  IF k > Len(existingProducts) THEN 0
  ELSE IF ToLowerCase(existingProducts[k].title) = searchTitle THEN k
  ELSE FindTitle(existingProducts, searchTitle, k + 1)

\* a lookup that compares the titles as they are
findExactTitle(existingProducts, productGroup) ==
  IF \E k \in 1..Len(existingProducts) :
       existingProducts[k].title = productGroup.seoTitle
  THEN CHOOSE k \in 1..Len(existingProducts) :
         existingProducts[k].title = productGroup.seoTitle
  ELSE 0

findExistingProductAdvanced(existingProducts, productGroup) ==
  FindTitle(existingProducts, ToLowerCase(productGroup.seoTitle), 1)

\* String.prototype.localeCompare(a, b) < 0 in the root collation, for the
\* characters of the model: white space and punctuation sort before digits,
\* digits before letters, and case only breaks ties
CollationChars == " -_.,\"()|/" \o DigitChars \o LowerChars
RECURSIVE LexLess(_, _)
LexLess(a, b) ==
  IF b = "" THEN FALSE
  ELSE IF a = "" THEN TRUE
  ELSE IF Head(a) = Head(b) THEN LexLess(Tail(a), Tail(b))
  ELSE IndexOf(CollationChars, Head(a)) < IndexOf(CollationChars, Head(b))
RECURSIVE CaseLess(_, _)
CaseLess(a, b) ==
  IF a = "" \/ b = "" THEN FALSE
  ELSE IF Head(a) = Head(b) THEN CaseLess(Tail(a), Tail(b))
  ELSE IsLower(Head(a))
localeCompareLess(a, b) ==
  IF ToLowerCase(a) # ToLowerCase(b)
  THEN LexLess(ToLowerCase(a), ToLowerCase(b))
  ELSE CaseLess(a, b)

\* the comparator of variants.sort (lines 2674-2679)
VariantBefore(a, b) ==
  IF a.option1 # b.option1 THEN localeCompareLess(a.option1, b.option1)
  ELSE IF a.option2 # b.option2 THEN localeCompareLess(a.option2, b.option2)
  ELSE localeCompareLess(a.option3, b.option3)

RECURSIVE InsertVariant(_, _)
InsertVariant(sorted, v) ==
  IF sorted = << >> THEN << v >>
  ELSE IF VariantBefore(v, Head(sorted)) THEN << v >> \o sorted
  ELSE << Head(sorted) >> \o InsertVariant(Tail(sorted), v)
RECURSIVE SortVariants(_)
SortVariants(vs) ==
  IF vs = << >> THEN << >>
  ELSE InsertVariant(SortVariants(SubSeq(vs, 1, Len(vs) - 1)), vs[Len(vs)])

\* lines 2612-2629: one stock item that carries a stock id and a serial
\* number is counted under `${color}|${condition}|${keyboardLayout}`
CountStockItem(variantMap, stockItem, variantKey) ==
  IF HasKey(variantMap, variantKey)
  THEN [variantMap EXCEPT
          ![KeyIndex(variantMap, variantKey)].inventory_quantity = @ + 1]
  ELSE Append(variantMap,
         [key |-> variantKey, color |-> stockItem.color,
          condition |-> stockItem.condition,
          keyboardLayout |-> stockItem.keyboardLayout,
          inventory_quantity |-> 1])

\* lines 2601-2633: the forEach over the stock items of the group; an item
\* without stock id or without serial number is skipped (lines 2606-2609)
RECURSIVE AggregateStockItems(_, _)
AggregateStockItems(variantMap, stockItems) ==
  IF stockItems = << >> THEN variantMap
  ELSE IF Head(stockItems).stockId = "" \/ Head(stockItems).serialNumber = ""
  THEN AggregateStockItems(variantMap, Tail(stockItems))
  ELSE AggregateStockItems(
         CountStockItem(variantMap, Head(stockItems),
           Head(stockItems).color \o "|" \o Head(stockItems).condition \o "|"
           \o Head(stockItems).keyboardLayout),
         Tail(stockItems))

\* lines 2649-2650: compare_at_price is the text of compareAtPrice when it
\* is above the price, and null, written "", when it is not
ComparePriceText(price, compareAtPrice) ==
  IF compareAtPrice > price THEN NatToString(compareAtPrice) ELSE ""

\* lines 2636-2671: one remote variant per entry of the map
ToRemoteVariants(productGroup, variantMap) ==
  [k \in 1..Len(variantMap) |->
     [option1 |-> variantMap[k].color,
      option2 |-> "Grade " \o variantMap[k].condition,
      option3 |-> variantMap[k].keyboardLayout,
      inventory_quantity |-> variantMap[k].inventory_quantity,
      price |-> NatToString(
                  calculateVariantPrice(productGroup, variantMap[k].condition)),
      compare_at_price |->
        ComparePriceText(
          calculateVariantPrice(productGroup, variantMap[k].condition),
          calculateComparePrice(productGroup, variantMap[k].condition))]]

\* lines 2682-2699: the variant pushed when the list came out empty; its
\* price is the group's basePrice and it has no compare_at_price, written ""
DefaultVariants(productGroup, variants) ==
  IF Len(variants) = 0
  THEN << [option1 |-> "Space Gray", option2 |-> "Grade A",
           option3 |-> "English",
           inventory_quantity |-> productGroup.totalUnits,
           price |-> NatToString(productGroup.basePrice),
           compare_at_price |-> ""] >>
  ELSE variants

createAdvancedVariants(productGroup) ==
  DefaultVariants(productGroup,
    SortVariants(ToRemoteVariants(productGroup,
      AggregateStockItems(<< >>, productGroup.stockItems))))

(***************************************************************************)
(* State                                                                   *)
(***************************************************************************)
VARIABLES
  appleProducts,    \* the rows handed to createProductGroups
  initialStore,     \* the catalog as it was before the first sync request
  index,            \* forEach: the position of the next row, from 1
  productGroups,    \* the groups built so far, in insertion order
  outcomes,         \* how the callback ended for each row processed so far
  groupResult,      \* what createProductGroups returned
  generated,        \* the catalog content generated for groups, in order
  imageAvailability, \* bestMatch.images.length of the groups of the batch
  waiting,          \* a second invocation of the sync handler, which
                    \* waits for an answer or a timer while the first runs
  costs,            \* the cost rows and cost field of one product, and the
                    \* add-cost requests being handled
  store,            \* the external catalog: products, collections, collects
  pc,               \* the position of the sync handler
  existingProducts, \* the product list fetched at the start of the run
  collections,      \* collectionsMap: lower-cased name -> collection id
  pending,          \* the collection names still to be handled
  results,          \* the summary of the run
  gi,               \* for..of over the groups: the position of the group
  existingProduct,  \* the position in existingProducts of the match, or 0
  createdProduct,   \* the id of the product the running create obtained
  newVariants,      \* the remote variants built for the current group
  vi,               \* the position of the variant in turn
  tally,            \* variantsUpdated / variantsCreated of the running update
  imageIndex,       \* uploadProductImages: the images handled so far (i)
  uploadedCount,    \* uploadProductImages: the uploads that succeeded
  calls,            \* the requests of the run sent to the catalog, in order
  failures,         \* requests that did not succeed, so far
  runs,             \* sync requests answered so far
  responses         \* the answers to the sync requests so far, in order

groupingVars == << appleProducts, initialStore, index, productGroups, outcomes,
                  groupResult, generated, imageAvailability,
                  waiting, costs >>
handlerVars == << existingProducts, collections, pending, results, gi,
                  existingProduct, createdProduct, newVariants, vi, tally,
                  imageIndex, uploadedCount >>
syncVars == << store, pc, existingProducts, collections, pending, results, gi,
               existingProduct, createdProduct, newVariants, vi, tally,
               imageIndex, uploadedCount, calls, failures, runs, responses >>
vars == << appleProducts, initialStore, index, productGroups, outcomes,
           groupResult, generated, imageAvailability, waiting, costs,
           store, pc, existingProducts, collections, pending, results, gi,
           existingProduct, createdProduct, newVariants, vi, tally,
           imageIndex, uploadedCount, calls, failures, runs, responses >>

\* the longest batch of rows given to createProductGroups alone
MaxRows == 3
\* sync requests in a row
MaxRuns == 2
\* requests to the catalog that fail, over all runs
MaxFailures == 1
\* the quantity of the variant already listed in the catalog
ListedQuantity == 3
\* generations of catalog content that are recorded
MaxGenerations == 2
\* line 2333: the images uploaded for one product, at most
MaxImages == 8

SeqsUpTo(S, n) == UNION {[1..k -> S] : k \in 1..n}

(***************************************************************************)
(* Initial states                                                          *)
(***************************************************************************)
NoResult == [returned |-> FALSE, totalItems |-> 0, groupCount |-> 0,
             totalUniqueUnits |-> 0]

\* lines 578-588, before the size of collectionsMap is known
ZeroResults ==
  [created |-> 0, updated |-> 0, errors |-> 0, skipped |-> 0,
   details |-> << >>, collectionsCreated |-> 0, variantsCreated |-> 0,
   variantsUpdated |-> 0, stockItemsProcessed |-> 0]

EmptyStore == [products |-> << >>, collections |-> << >>, collects |-> {}]

\* a catalog that lists RowA's product, its title in capitals, with one
\* variant in stock, and one collection
ListedStore ==
  [products |->
     << [title |-> ToUpperCase(ItemFacts[RowA].seoTitle),
         variants |-> << [option1 |-> "Space Gray", option2 |-> "Grade A",
                          option3 |-> "English",
                          inventory_quantity |-> ListedQuantity,
                          price |-> NatToString(ItemFacts[RowA].price),
                          compare_at_price |->
                            NatToString(ItemFacts[RowA].compareAtPrice)] >>,
         images |-> 0] >>,
   collections |-> << "apple" >>,
   collects |-> {}]

InitialStores == {EmptyStore, ListedStore}

\* the batches that are grouped and then synchronised
SyncBatches ==
  { << RowA >>, << RowA, RowB >>, << RowA, RowE >>, << RowE >>,
    << RowT8, RowT16 >>, << RowA, RowT8 >>, << RowX, RowA >>,
    << RowC, RowA >>, << RowC >>, << RowX >> }

HandlerIdle ==
  /\ pc = "idle"
  /\ existingProducts = << >>
  /\ collections = << >>
  /\ pending = << >>
  /\ results = ZeroResults
  /\ gi = 0
  /\ existingProduct = 0
  /\ createdProduct = 0
  /\ newVariants = << >>
  /\ vi = 0
  /\ tally = [variantsUpdated |-> 0, variantsCreated |-> 0]
  /\ imageIndex = 0
  /\ uploadedCount = 0
  /\ calls = << >>
  /\ failures = 0
  /\ runs = 0
  /\ responses = << >>

\* what an invocation of the sync handler holds before it is called
IdleHandler ==
  [pc |-> "idle", existingProducts |-> << >>, collections |-> << >>,
   pending |-> << >>, results |-> ZeroResults, gi |-> 0,
   existingProduct |-> 0, createdProduct |-> 0, newVariants |-> << >>,
   vi |-> 0, tally |-> [variantsUpdated |-> 0, variantsCreated |-> 0],
   imageIndex |-> 0, uploadedCount |-> 0, calls |-> << >>]

\* add-cost requests arriving together, at most
MaxRequests == 2
\* the largest amount of a cost row
MaxAmount == 2

\* no cost row, a product whose additional_costs is the column's default,
\* and no request
NoCosts ==
  [rows |-> << >>, additional_costs |-> 0,
   requests |-> [r \in 1..MaxRequests |->
                   [pc |-> "idle", amount |-> 0, totalCosts |-> 0]]]

GroupingStart ==
  /\ index = 1
  /\ productGroups = << >>
  /\ outcomes = << >>
  /\ groupResult = NoResult
  /\ generated = << >>
  /\ waiting = IdleHandler
  /\ costs = NoCosts

GroupingInit ==
  /\ appleProducts \in SeqsUpTo(GroupRows, MaxRows)
  /\ imageAvailability = 0
  /\ GroupingStart
  /\ store = EmptyStore
  /\ initialStore = store
  /\ HandlerIdle

\* the batches for whose groups the image search found a match (images are
\* uploaded for created products only, so the catalog starts empty for them),
\* and the numbers of images the match can have: fewer than the limit of
\* line 2333, and more
ImageBatches == { << RowA >> }
ImageCounts == {0, 2, MaxImages + 1}

Init ==
  /\ appleProducts \in SyncBatches
  /\ GroupingStart
  /\ store \in InitialStores
  /\ initialStore = store
  /\ imageAvailability \in
       IF appleProducts \in ImageBatches /\ store = EmptyStore
       THEN ImageCounts ELSE {0}
  /\ HandlerIdle

(***************************************************************************)
(* createProductGroups as a state machine                                  *)
(***************************************************************************)
InLoop == groupResult.returned = FALSE /\ index <= Len(appleProducts)

\* lines 718-723: the classifier gives null and the callback returns
SkipUnrecognized ==
  /\ InLoop
  /\ ItemStep(productGroups, appleProducts[index]).outcome = "rejected"
  /\ productGroups' = ProcessItem(productGroups, appleProducts[index])
  /\ outcomes' = Append(outcomes, "rejected")
  /\ index' = index + 1
  /\ UNCHANGED << appleProducts, initialStore, groupResult, generated,
                  imageAvailability,
                  waiting, costs >>
  /\ UNCHANGED syncVars

\* lines 815-817: an exception thrown in the callback is caught and logged
CatchError ==
  /\ InLoop
  /\ ItemStep(productGroups, appleProducts[index]).outcome = "raised"
  /\ productGroups' = ProcessItem(productGroups, appleProducts[index])
  /\ outcomes' = Append(outcomes, "raised")
  /\ index' = index + 1
  /\ UNCHANGED << appleProducts, initialStore, groupResult, generated,
                  imageAvailability,
                  waiting, costs >>
  /\ UNCHANGED syncVars

\* lines 725-813: the row is added to its group and to its variant
AddUnit ==
  /\ InLoop
  /\ ItemStep(productGroups, appleProducts[index]).outcome = "added"
  /\ productGroups' = ProcessItem(productGroups, appleProducts[index])
  /\ outcomes' = Append(outcomes, "added")
  /\ index' = index + 1
  /\ UNCHANGED << appleProducts, initialStore, groupResult, generated,
                  imageAvailability,
                  waiting, costs >>
  /\ UNCHANGED syncVars

\* lines 837-855: the totals and the return value
ReturnGroups ==
  /\ groupResult.returned = FALSE
  /\ index > Len(appleProducts)
  /\ groupResult' = [returned |-> TRUE,
                     totalItems |-> Len(appleProducts),
                     groupCount |-> Len(productGroups),
                     totalUniqueUnits |-> SumTotalUnits(productGroups)]
  /\ UNCHANGED << appleProducts, initialStore, index, productGroups, outcomes,
                  generated, imageAvailability,
                  waiting, costs >>
  /\ UNCHANGED syncVars

GroupingNext == SkipUnrecognized \/ CatchError \/ AddUnit \/ ReturnGroups

GroupingSpec == GroupingInit /\ [][GroupingNext]_vars

(***************************************************************************)
(* The catalog content of the groups createProductGroups returned          *)
(***************************************************************************)
\* the batches whose content is generated
ContentBatches ==
  { << RowA >>, << RowA, RowB >>, << RowA, RowB, RowB >>, << RowT8 >>,
    << RowH >>, << RowX, RowA >>, << RowC, RowH >>, << RowA, RowT8 >>,
    << RowH, RowA >>, << RowB, RowA >>, << RowA, RowE, RowB >>,
    << RowA, RowTB >> }

ContentInit ==
  /\ appleProducts \in ContentBatches
  /\ imageAvailability = 0
  /\ GroupingStart
  /\ store = EmptyStore
  /\ initialStore = store
  /\ HandlerIdle

\* the positions of the rows that reached line 729 with the key of group g:
\* the first of them created the group
RowsOf(g) ==
  {i \in 1..Len(outcomes) :
     /\ outcomes[i] # "rejected"
     /\ ItemFacts[appleProducts[i]].groupKey = productGroups[g].key
     /\ ~createSEOOptimizedHandleThrows(ItemFacts[appleProducts[i]].productInfo)}

\* line 718 for the row that created group g: the productInfo the generators
\* of lines 741-749 were given
SpecOf(g) == ItemFacts[appleProducts[MinOf(RowsOf(g))]].productInfo

\* lines 741-749 and 820-835 for group g: the generators are applied to the
\* spec and to the variants of the group; the comparator of line 1695 draws
\* from Math.random, so the order of the pool is one of several
GenerateContent ==
  /\ groupResult.returned
  /\ Len(generated) < MaxGenerations
  /\ \E g \in 1..Len(productGroups), shift \in 0..MaxShift :
       generated' = Append(generated,
         [spec |-> SpecOf(g),
          variants |-> productGroups[g].variants,
          content |-> CatalogContent(SpecOf(g), productGroups[g].variants,
                                     shift)])
  /\ UNCHANGED << appleProducts, initialStore, index, productGroups, outcomes,
                  groupResult, imageAvailability,
                  waiting, costs >>
  /\ UNCHANGED syncVars

ContentNext == GroupingNext \/ GenerateContent

ContentSpec == ContentInit /\ [][ContentNext]_vars

(***************************************************************************)
(* POST /api/sync-shopify as a state machine                               *)
(* The request body carries the groups createProductGroups returned.  A    *)
(* product of the catalog has its position in store.products as id, a      *)
(* variant its position in the product's variants, a collection its        *)
(* position in store.collections.  The product list fits one page.         *)
(***************************************************************************)
Call(kind, group, item, quantity, ok) ==
  [kind |-> kind, group |-> group, item |-> item, quantity |-> quantity,
   ok |-> ok, outcome |-> IF ok THEN "ok" ELSE "failed", unpaused |-> FALSE]

\* the handler issues its next request without a pause after this one
Unpaused(call) == [call EXCEPT !.unpaused = TRUE]
After(call, unpaused) == IF unpaused THEN Unpaused(call) ELSE call

\* how a request inside a try block can end: response.ok, status 422, another
\* status, or fetch throws
CallOutcomes == {"ok", "422", "failed", "thrown"}
\* the batches for which a membership request is answered in each of these
\* ways; for the others it succeeds or fails with another status
OutcomeBatches == { << RowA >>, << RowA, RowB >> }
MembershipOutcomes ==
  IF appleProducts \in OutcomeBatches THEN CallOutcomes ELSE {"ok", "failed"}
CallWith(kind, group, item, outcome) ==
  [kind |-> kind, group |-> group, item |-> item, quantity |-> 0,
   ok |-> outcome = "ok", outcome |-> outcome, unpaused |-> FALSE]

\* a request is sent and answered: with success, or without
Sent(call) ==
  /\ call.ok \/ failures < MaxFailures
  /\ calls' = Append(calls, call)
  /\ failures' = IF call.ok THEN failures ELSE failures + 1

\* res.json(...) / res.status(...).json(...): the handler answers and ends
Answer(status, body) ==
  /\ responses' = Append(responses, [status |-> status, body |-> body])
  /\ runs' = runs + 1
  /\ pc' = "idle"

\* collectionsMap[key] = id
Assign(map, key, id) ==
  IF \E k \in 1..Len(map) : map[k].name = key
  THEN [k \in 1..Len(map) |->
          IF map[k].name = key THEN [name |-> key, id |-> id] ELSE map[k]]
  ELSE Append(map, [name |-> key, id |-> id])

\* collectionsMap[key]; 0 stands for undefined
RECURSIVE Lookup(_, _, _)
Lookup(map, key, k) ==
  IF k > Len(map) THEN 0
  ELSE IF map[k].name = key THEN map[k].id
  ELSE Lookup(map, key, k + 1)

\* lines 2789-2792: the map of the collections the catalog returned
RECURSIVE ExistingCollections(_, _, _)
ExistingCollections(titles, k, map) ==
  IF k > Len(titles) THEN map
  ELSE ExistingCollections(titles, k + 1,
                           Assign(map, ToLowerCase(titles[k]), k))

\* lines 2766-2773: the names the groups ask for, each once
RECURSIVE neededCollections(_, _)
neededCollections(groups, names) ==
  IF groups = << >> THEN names
  ELSE neededCollections(Tail(groups), Unique(Head(groups).collections, names))

\* line 2797: the needed names the catalog does not have yet
RECURSIVE MissingCollections(_, _)
MissingCollections(names, map) ==
  IF names = << >> THEN << >>
  ELSE IF Lookup(map, ToLowerCase(Head(names)), 1) # 0
  THEN MissingCollections(Tail(names), map)
  ELSE << Head(names) >> \o MissingCollections(Tail(names), map)

\* lines 2841-2843: the names of the group that have an id in the map
RECURSIVE KnownCollections(_, _)
KnownCollections(names, map) ==
  IF names = << >> THEN << >>
  ELSE IF Lookup(map, ToLowerCase(Head(names)), 1) = 0
  THEN KnownCollections(Tail(names), map)
  ELSE << Head(names) >> \o KnownCollections(Tail(names), map)

\* existingProduct.variants.find(...): the position of the first variant,
\* from position k on, with the three options of newVariant; 0 if none
RECURSIVE FindVariant(_, _, _)
FindVariant(variants, newVariant, k) ==
  IF k > Len(variants) THEN 0
  ELSE IF /\ variants[k].option1 = newVariant.option1
          /\ variants[k].option2 = newVariant.option2
          /\ variants[k].option3 = newVariant.option3
  THEN k
  ELSE FindVariant(variants, newVariant, k + 1)

\* lines 578-588 and the head of the for..of loop of line 591
EnterLoop(map) ==
  /\ collections' = map
  /\ results' = [ZeroResults EXCEPT !.collectionsCreated = Len(map)]
  /\ gi' = 1
  /\ pc' = IF Len(productGroups) = 0 THEN "respond" ELSE "group"

\* line 670 and the next iteration of the loop
NextGroup ==
  /\ gi' = gi + 1
  /\ pc' = IF gi + 1 > Len(productGroups) THEN "respond" ELSE "group"

\* lines 606-610
UpdateDone(variantsUpdated) ==
  /\ results' = [results EXCEPT
       !.updated = @ + 1,
       !.variantsUpdated = @ + variantsUpdated,
       !.stockItemsProcessed = @ + productGroups[gi].totalUnits,
       !.details = Append(@, [kind |-> "updated",
                              title |-> productGroups[gi].seoTitle])]
  /\ NextGroup

\* a failed update that is recorded in details and not counted in errors
UpdateFailedUncounted ==
  /\ results' = [results EXCEPT
       !.details = Append(@, [kind |-> "update failed",
                              title |-> productGroups[gi].seoTitle])]
  /\ NextGroup

\* lines 612-632: the update threw; the group is not created instead
UpdateFailed ==
  /\ results' = [results EXCEPT
       !.errors = @ + 1,
       !.details = Append(@, [kind |-> "update failed",
                              title |-> productGroups[gi].seoTitle])]
  /\ NextGroup

\* lines 654-658
CreateDone(variantsCreated) ==
  /\ results' = [results EXCEPT
       !.created = @ + 1,
       !.variantsCreated = @ + variantsCreated,
       !.stockItemsProcessed = @ + productGroups[gi].totalUnits,
       !.details = Append(@, [kind |-> "created",
                              title |-> productGroups[gi].seoTitle])]
  /\ NextGroup

\* a failed create that ends the loop over the groups
CreateFailedStopping ==
  /\ results' = [results EXCEPT
       !.errors = @ + 1,
       !.details = Append(@, [kind |-> "create failed",
                              title |-> productGroups[gi].seoTitle])]
  /\ gi' = gi
  /\ pc' = "respond"

\* a failed create that leaves the group in turn, to be created again
CreateFailedRetrying ==
  /\ UNCHANGED << results, gi, pc >>

\* lines 660-665
CreateFailed ==
  /\ results' = [results EXCEPT
       !.errors = @ + 1,
       !.details = Append(@, [kind |-> "create failed",
                              title |-> productGroups[gi].seoTitle])]
  /\ NextGroup

\* lines 546-558: a complete request starts a run
StartSync ==
  /\ pc = "idle"
  /\ groupResult.returned
  /\ runs < MaxRuns
  /\ pc' = "probe"
  /\ existingProducts' = << >>
  /\ collections' = << >>
  /\ pending' = << >>
  /\ results' = ZeroResults
  /\ gi' = 0
  /\ existingProduct' = 0
  /\ createdProduct' = 0
  /\ newVariants' = << >>
  /\ vi' = 0
  /\ tally' = [variantsUpdated |-> 0, variantsCreated |-> 0]
  /\ imageIndex' = 0
  /\ uploadedCount' = 0
  /\ calls' = << >>
  /\ UNCHANGED << store, failures, runs, responses >>
  /\ UNCHANGED groupingVars

\* lines 548-550: a request without store, token or groups is answered 400
RejectRequest ==
  /\ pc = "idle"
  /\ groupResult.returned
  /\ runs < MaxRuns
  /\ Answer(400, ZeroResults)
  /\ calls' = << >>
  /\ UNCHANGED << store, failures >>
  /\ UNCHANGED handlerVars
  /\ UNCHANGED groupingVars

\* a probe whose answer is not looked at
ProbeUnchecked(ok) ==
  /\ pc = "probe"
  /\ Sent(After(Call("GET shop.json", 0, 0, 0, ok), ok))
  /\ pc' = "products"
  /\ UNCHANGED << store, runs, responses >>
  /\ UNCHANGED handlerVars
  /\ UNCHANGED groupingVars

\* lines 562-565 and 683-686: the connectivity probe
Probe(ok) ==
  /\ pc = "probe"
  /\ Sent(After(Call("GET shop.json", 0, 0, 0, ok), ok))
  /\ IF ok
     THEN pc' = "products" /\ UNCHANGED << runs, responses >>
     ELSE Answer(500, ZeroResults)
  /\ UNCHANGED store
  /\ UNCHANGED handlerVars
  /\ UNCHANGED groupingVars

\* lines 570 and 2726-2763: the product list is fetched once
FetchProducts(ok) ==
  /\ pc = "products"
  /\ Sent(After(Call("GET products.json", 0, 0, 0, ok), ok))
  /\ IF ok
     THEN /\ existingProducts' = store.products
          /\ pc' = "collections"
          /\ UNCHANGED << runs, responses >>
     ELSE /\ Answer(500, ZeroResults)
          /\ UNCHANGED existingProducts
  /\ UNCHANGED << store, collections, pending, results, gi, existingProduct,
                  createdProduct, newVariants, vi, tally,
                  imageIndex, uploadedCount >>
  /\ UNCHANGED groupingVars

\* lines 2775-2792: the collections of the catalog are fetched
FetchCollections(ok) ==
  /\ pc = "collections"
  /\ Sent(After(Call("GET custom_collections.json", 0, 0, 0, ok), ok))
  /\ IF ok
     THEN /\ pending' = MissingCollections(
                          neededCollections(productGroups, << >>),
                          ExistingCollections(store.collections, 1, << >>))
          /\ IF pending' = << >>
             THEN EnterLoop(ExistingCollections(store.collections, 1, << >>))
             ELSE /\ collections' =
                       ExistingCollections(store.collections, 1, << >>)
                  /\ pc' = "createCollection"
                  /\ UNCHANGED << results, gi >>
          /\ UNCHANGED << runs, responses >>
     ELSE /\ Answer(500, ZeroResults)
          /\ UNCHANGED << pending, collections, results, gi >>
  /\ UNCHANGED << store, existingProducts, existingProduct, createdProduct,
                  newVariants, vi, tally,
                  imageIndex, uploadedCount >>
  /\ UNCHANGED groupingVars

\* lines 2796-2829: a missing collection is created; a failure is logged and
\* the loop goes on
CreateCollection(ok) ==
  /\ pc = "createCollection"
  /\ Sent(Call("POST custom_collections.json", 0, 0, 0, ok))
  /\ store' = IF ok THEN [store EXCEPT !.collections = Append(@, Head(pending))]
              ELSE store
  /\ pending' = Tail(pending)
  /\ IF Tail(pending) = << >>
     THEN EnterLoop(IF ok
                    THEN Assign(collections, ToLowerCase(Head(pending)),
                                Len(store.collections) + 1)
                    ELSE collections)
     ELSE /\ collections' =
               (IF ok
                THEN Assign(collections, ToLowerCase(Head(pending)),
                            Len(store.collections) + 1)
                ELSE collections)
          /\ UNCHANGED << pc, results, gi >>
  /\ UNCHANGED << existingProducts, existingProduct, createdProduct,
                  newVariants, vi, tally, runs, responses,
                  imageIndex, uploadedCount >>
  /\ UNCHANGED groupingVars

\* lines 597-603 and 2384-2433: the group has a match in the fetched list;
\* its product details are sent, then its remote variants are built
UpdateProductDetails(ok) ==
  /\ pc = "group"
  /\ findExistingProductAdvanced(existingProducts, productGroups[gi]) # 0
  /\ existingProduct' =
       findExistingProductAdvanced(existingProducts, productGroups[gi])
  /\ Sent(After(Call("PUT products/id.json", gi, existingProduct', 0, ok), ok))
  /\ IF ok
     THEN /\ store' = [store EXCEPT !.products[existingProduct'].title =
                         productGroups[gi].seoTitle]
          /\ newVariants' = createAdvancedVariants(productGroups[gi])
          /\ vi' = 1
          /\ tally' = [variantsUpdated |-> 0, variantsCreated |-> 0]
          /\ pc' = "variants"
          /\ UNCHANGED << results, gi >>
     ELSE /\ UpdateFailed
          /\ UNCHANGED << store, newVariants, vi, tally >>
  /\ UNCHANGED << existingProducts, collections, pending, createdProduct,
                  runs, responses,
                  imageIndex, uploadedCount >>
  /\ UNCHANGED groupingVars

\* a variant request whose failure does not end the update
AfterVariantContinuing(ok, counted) ==
  /\ tally' = counted
  /\ IF vi = Len(newVariants)
     THEN UpdateDone(counted.variantsUpdated) /\ UNCHANGED vi
     ELSE vi' = vi + 1 /\ UNCHANGED << pc, results, gi >>
  /\ UNCHANGED << existingProducts, existingProduct, collections, pending,
                  createdProduct, newVariants, runs, responses,
                  imageIndex, uploadedCount >>
  /\ UNCHANGED groupingVars

\* what follows a variant request: the update is abandoned, or it is
\* complete (lines 2556-2573), or the loop goes on (line 2547)
AfterVariant(ok, counted) ==
  /\ tally' = counted
  /\ IF ~ok THEN UpdateFailed /\ UNCHANGED vi
     ELSE IF vi = Len(newVariants)
     THEN UpdateDone(counted.variantsUpdated) /\ UNCHANGED vi
     ELSE vi' = vi + 1 /\ UNCHANGED << pc, results, gi >>
  /\ UNCHANGED << existingProducts, existingProduct, collections, pending,
                  createdProduct, newVariants, runs, responses,
                  imageIndex, uploadedCount >>
  /\ UNCHANGED groupingVars

\* lines 2458-2500: the fetched product has the variant at position v; its
\* fetched quantity plus the quantity of the new variant is sent, with the
\* prices of the new variant
UpdateVariantAt(v, quantity, ok) ==
  /\ Sent(Call("PUT variants/id.json", gi, v, quantity, ok))
  /\ store' = IF ok
              THEN [store EXCEPT !.products[existingProduct].variants[v] =
                      [@ EXCEPT
                         !.inventory_quantity = quantity,
                         !.price = newVariants[vi].price,
                         !.compare_at_price = newVariants[vi].compare_at_price]]
              ELSE store
  /\ AfterVariant(ok, IF ok THEN [tally EXCEPT !.variantsUpdated = @ + 1]
                      ELSE tally)

UpdateVariant(ok) ==
  /\ pc = "variants"
  /\ FindVariant(existingProducts[existingProduct].variants,
                 newVariants[vi], 1) # 0
  /\ UpdateVariantAt(
       FindVariant(existingProducts[existingProduct].variants,
                   newVariants[vi], 1),
       existingProducts[existingProduct].variants[
         FindVariant(existingProducts[existingProduct].variants,
                     newVariants[vi], 1)].inventory_quantity
       + newVariants[vi].inventory_quantity,
       ok)

\* lines 2501-2543: the fetched product has no such variant; the new variant
\* is created under the product
CreateVariant(ok) ==
  /\ pc = "variants"
  /\ FindVariant(existingProducts[existingProduct].variants,
                 newVariants[vi], 1) = 0
  /\ Sent(Call("POST products/id/variants.json", gi, vi,
               newVariants[vi].inventory_quantity, ok))
  /\ store' = IF ok
              THEN [store EXCEPT !.products[existingProduct].variants =
                      Append(@, newVariants[vi])]
              ELSE store
  /\ AfterVariant(ok, IF ok THEN [tally EXCEPT !.variantsCreated = @ + 1]
                      ELSE tally)

\* lines 2304 and 2325-2333: the uploads uploadProductImages is to make
ImagesToUpload ==
  IF imageAvailability < MaxImages THEN imageAvailability ELSE MaxImages

\* lines 634-652 and 2243-2300: the group has no match in the fetched list;
\* a product with the group's title and variants is created
CreateProduct(ok) ==
  /\ pc = "group"
  /\ findExistingProductAdvanced(existingProducts, productGroups[gi]) = 0
  /\ Sent(After(Call("POST products.json", gi, 0, 0, ok),
           /\ ok
           /\ \/ ImagesToUpload > 0
              \/ KnownCollections(productGroups[gi].collections,
                                  collections) # << >>))
  /\ IF ok
     THEN /\ newVariants' = createAdvancedVariants(productGroups[gi])
          /\ store' = [store EXCEPT !.products =
                         Append(@, [title |-> productGroups[gi].seoTitle,
                                    variants |-> newVariants',
                                    images |-> 0])]
          /\ createdProduct' = Len(store.products) + 1
          /\ pending' = KnownCollections(productGroups[gi].collections,
                                         collections)
          /\ IF ImagesToUpload > 0
             THEN pc' = "images" /\ UNCHANGED << results, gi >>
             ELSE IF pending' = << >>
             THEN CreateDone(Len(newVariants'))
             ELSE pc' = "collect" /\ UNCHANGED << results, gi >>
     ELSE /\ CreateFailed
          /\ UNCHANGED << store, newVariants, createdProduct, pending >>
  /\ imageIndex' = 0
  /\ uploadedCount' = 0
  /\ UNCHANGED << existingProducts, existingProduct, collections, vi, tally,
                  runs, responses >>
  /\ UNCHANGED groupingVars

\* an image upload that ends the create of the group when it fails
UploadImageStopping(outcome) ==
  /\ pc = "images"
  /\ Sent(CallWith("POST products/id/images.json", gi, imageIndex + 1, outcome))
  /\ store' = IF outcome = "ok"
              THEN [store EXCEPT !.products[createdProduct].images = @ + 1]
              ELSE store
  /\ uploadedCount' = IF outcome = "ok" THEN uploadedCount + 1
                      ELSE uploadedCount
  /\ imageIndex' = imageIndex + 1
  /\ IF outcome # "ok" THEN CreateFailed
     ELSE IF imageIndex + 1 < ImagesToUpload
     THEN UNCHANGED << pc, results, gi >>
     ELSE IF pending = << >>
     THEN CreateDone(Len(newVariants))
     ELSE pc' = "collect" /\ UNCHANGED << results, gi >>
  /\ UNCHANGED << existingProducts, existingProduct, collections, pending,
                  createdProduct, newVariants, vi, tally, runs, responses >>
  /\ UNCHANGED groupingVars

\* lines 2302-2307 and 2324-2372: the next image of the match is uploaded;
\* a response that is not ok and an exception are logged and the loop goes on
UploadImage(outcome) ==
  /\ pc = "images"
  /\ Sent(After(CallWith("POST products/id/images.json", gi, imageIndex + 1,
                          outcome),
           /\ outcome = "thrown"
           /\ imageIndex + 1 < ImagesToUpload \/ pending # << >>))
  /\ store' = IF outcome = "ok"
              THEN [store EXCEPT !.products[createdProduct].images = @ + 1]
              ELSE store
  /\ uploadedCount' = IF outcome = "ok" THEN uploadedCount + 1
                      ELSE uploadedCount
  /\ imageIndex' = imageIndex + 1
  /\ IF imageIndex + 1 < ImagesToUpload
     THEN UNCHANGED << pc, results, gi >>
     ELSE IF pending = << >>
     THEN CreateDone(Len(newVariants))
     ELSE pc' = "collect" /\ UNCHANGED << results, gi >>
  /\ UNCHANGED << existingProducts, existingProduct, collections, pending,
                  createdProduct, newVariants, vi, tally, runs, responses >>
  /\ UNCHANGED groupingVars

\* a failed membership request that ends the create of the group
AddToCollectionStopping(outcome) ==
  /\ pc = "collect"
  /\ Sent(CallWith("POST collects.json", gi,
                   Lookup(collections, ToLowerCase(Head(pending)), 1), outcome))
  /\ store' = IF outcome = "ok"
              THEN [store EXCEPT !.collects = @ \cup
                      {<< createdProduct,
                          Lookup(collections, ToLowerCase(Head(pending)), 1) >>}]
              ELSE store
  /\ pending' = Tail(pending)
  /\ IF outcome \notin {"ok", "422"} THEN CreateFailed
     ELSE IF Tail(pending) = << >>
     THEN CreateDone(Len(newVariants))
     ELSE UNCHANGED << pc, results, gi >>
  /\ UNCHANGED << existingProducts, existingProduct, collections,
                  createdProduct, newVariants, vi, tally, runs, responses,
                  imageIndex, uploadedCount >>
  /\ UNCHANGED groupingVars

\* lines 2309-2312 and 2836-2876: the created product is added to one of
\* its collections; a failure is logged and the loop goes on
AddToCollection(outcome) ==
  /\ pc = "collect"
  /\ Sent(After(CallWith("POST collects.json", gi,
                          Lookup(collections, ToLowerCase(Head(pending)), 1),
                          outcome),
           outcome = "thrown" /\ Tail(pending) # << >>))
  /\ store' = IF outcome = "ok"
              THEN [store EXCEPT !.collects = @ \cup
                      {<< createdProduct,
                          Lookup(collections, ToLowerCase(Head(pending)), 1) >>}]
              ELSE store
  /\ pending' = Tail(pending)
  /\ IF Tail(pending) = << >>
     THEN CreateDone(Len(newVariants))
     ELSE UNCHANGED << pc, results, gi >>
  /\ UNCHANGED << existingProducts, existingProduct, collections,
                  createdProduct, newVariants, vi, tally, runs, responses,
                  imageIndex, uploadedCount >>
  /\ UNCHANGED groupingVars

\* line 681: the summary is the answer
Respond ==
  /\ pc = "respond"
  /\ Answer(200, results)
  /\ UNCHANGED << store, calls, failures >>
  /\ UNCHANGED handlerVars
  /\ UNCHANGED groupingVars

SyncNext ==
  \/ StartSync
  \/ RejectRequest
  \/ \E ok \in BOOLEAN : Probe(ok)
  \/ \E ok \in BOOLEAN : FetchProducts(ok)
  \/ \E ok \in BOOLEAN : FetchCollections(ok)
  \/ \E ok \in BOOLEAN : CreateCollection(ok)
  \/ \E ok \in BOOLEAN : UpdateProductDetails(ok)
  \/ \E ok \in BOOLEAN : UpdateVariant(ok)
  \/ \E ok \in BOOLEAN : CreateVariant(ok)
  \/ \E ok \in BOOLEAN : CreateProduct(ok)
  \/ \E outcome \in CallOutcomes \ {"422"} : UploadImage(outcome)
  \/ \E outcome \in MembershipOutcomes : AddToCollection(outcome)
  \/ Respond

Next == GroupingNext \/ SyncNext

Spec == Init /\ [][Next]_vars

(***************************************************************************)
(* Properties of the sync run                                              *)
(***************************************************************************)
\* the title of group g equals, after toLowerCase, the title of a product of
\* the list the run fetched
TitleListed(g) ==
  \E k \in 1..Len(existingProducts) :
    ToLowerCase(existingProducts[k].title)
      = ToLowerCase(productGroups[g].seoTitle)

\* C1: a run never sends POST products.json for a group whose title equals,
\* case-insensitively, the title of a product of the fetched list, whether
\* the update of the group succeeds or fails at the product-details request
\* or at a variant request.
C1_ListedGroupNeverCreated ==
  \A k \in 1..Len(calls) :
    calls[k].kind = "POST products.json" => ~TitleListed(calls[k].group)

\* a run is at its end, the update of a listed group failed in it, and the
\* run went on without a create request for that group
C1_Witness ==
  /\ pc = "respond"
  /\ \E g \in 1..Len(productGroups) :
       /\ TitleListed(g)
       /\ \E k \in 1..Len(results.details) :
            results.details[k] = [kind |-> "update failed",
                                  title |-> productGroups[g].seoTitle]
       /\ \E k \in 1..Len(calls) :
            calls[k].group = g /\ calls[k].kind = "PUT variants/id.json"
            /\ ~calls[k].ok

\* no two products of the list have the same title after toLowerCase
NoDuplicateTitles(products) ==
  \A i, j \in 1..Len(products) :
    i # j => ToLowerCase(products[i].title) # ToLowerCase(products[j].title)

\* C2: when one sync run against a catalog without duplicate titles has
\* ended, no two products of the catalog have the same title
\* (case-insensitively), whatever the batch of groups was.
C2_SingleRunNoDuplicateTitles ==
  (/\ pc = "idle"
   /\ Len(responses) = 1
   /\ NoDuplicateTitles(initialStore.products))
  => NoDuplicateTitles(store.products)

\* C10: when the connectivity probe does not succeed, the run ends at once
\* with an error answer and the probe is the only request it has sent.
C10_ProbeFailureEndsRun ==
  (Len(calls) >= 1 /\ ~calls[1].ok)
  => /\ Len(calls) = 1
     /\ pc = "idle"
     /\ responses[Len(responses)].status = 500
     /\ store = initialStore \/ runs > 1

\* the probe of the first run failed and the run was answered
C10_Witness ==
  /\ calls = << Call("GET shop.json", 0, 0, 0, FALSE) >>
  /\ pc = "idle"
  /\ runs = 1
  /\ responses = << [status |-> 500, body |-> ZeroResults] >>

\* the options a remote variant has when it stands for bucket b of group g
BucketOptions(g, b) ==
  [option1 |-> productGroups[g].variants[b].color,
   option2 |-> "Grade " \o productGroups[g].variants[b].condition,
   option3 |-> productGroups[g].variants[b].keyboardLayout]

SameOptions(v, w) ==
  v.option1 = w.option1 /\ v.option2 = w.option2 /\ v.option3 = w.option3

\* the buckets of group g that have the options of the remote variant rv
BucketsOf(g, rv) ==
  { b \in 1..Len(productGroups[g].variants) : SameOptions(BucketOptions(g, b), rv) }

\* the variants, in the fetched list, of the product group g is matched with
FetchedVariants(g) ==
  existingProducts[FindTitle(existingProducts,
                             ToLowerCase(productGroups[g].seoTitle), 1)].variants

\* the update of group g ran to its end in the current run
Updated(g) ==
  \E k \in 1..Len(results.details) :
    results.details[k] = [kind |-> "updated",
                          title |-> productGroups[g].seoTitle]

\* C3: the quantity an update sends for a remote variant that has the
\* options of a local bucket is Q + q, Q the remote variant's quantity and q
\* the bucket's quantity; a bucket without such a remote variant is sent as
\* a new variant of the product, with quantity q.
C3_UpdateSendsSum ==
  /\ \A k \in 1..Len(calls) :
       calls[k].kind = "PUT variants/id.json" =>
         \A b \in BucketsOf(calls[k].group,
                            FetchedVariants(calls[k].group)[calls[k].item]) :
           calls[k].quantity =
             FetchedVariants(calls[k].group)[calls[k].item].inventory_quantity
             + productGroups[calls[k].group].variants[b].quantity
  /\ \A g \in 1..Len(productGroups) :
       (pc = "respond" /\ Updated(g)) =>
         \A b \in 1..Len(productGroups[g].variants) :
           \/ FindVariant(FetchedVariants(g), BucketOptions(g, b), 1) # 0
           \/ \E k \in 1..Len(calls) :
                /\ calls[k].kind = "POST products/id/variants.json"
                /\ calls[k].group = g
                /\ calls[k].ok
                /\ calls[k].quantity = productGroups[g].variants[b].quantity

\* two runs in a row were answered, both complete and without a failed
\* request, and the catalog had, before the first, no product titled like a
\* group of the batch
TwoCleanRuns ==
  /\ pc = "idle"
  /\ failures = 0
  /\ Len(responses) = 2
  /\ responses[1].status = 200
  /\ responses[2].status = 200
  /\ \A g \in 1..Len(productGroups), k \in 1..Len(initialStore.products) :
       ToLowerCase(initialStore.products[k].title)
         # ToLowerCase(productGroups[g].seoTitle)

\* the quantities the catalog holds for the options rv under product p
QuantitiesAt(p, rv) ==
  { store.products[p].variants[v].inventory_quantity :
      v \in { v \in 1..Len(store.products[p].variants) :
                SameOptions(store.products[p].variants[v], rv) } }

\* the quantities the catalog holds for bucket b of group g, under the
\* products titled like the group
RemoteQuantities(g, b) ==
  UNION { QuantitiesAt(p, BucketOptions(g, b)) :
            p \in { p \in 1..Len(store.products) :
                      ToLowerCase(store.products[p].title)
                        = ToLowerCase(productGroups[g].seoTitle) } }

\* C4: two runs in a row with the same batch, from a catalog without a
\* product of a matching title: the first answers created = number of
\* groups and updated = 0, the second created = 0 and updated = number of
\* groups, and then every remote variant holds twice its bucket's quantity.
C4_SecondRunDoubles ==
  TwoCleanRuns =>
    /\ responses[1].body.created = Len(productGroups)
    /\ responses[1].body.updated = 0
    /\ responses[2].body.created = 0
    /\ responses[2].body.updated = Len(productGroups)
    /\ \A g \in 1..Len(productGroups) :
         \A b \in 1..Len(productGroups[g].variants) :
           RemoteQuantities(g, b) = {2 * productGroups[g].variants[b].quantity}

\* the sum of the quantities of a list of remote variants
RECURSIVE SumQuantities(_)
SumQuantities(variants) ==
  IF variants = << >> THEN 0
  ELSE Head(variants).inventory_quantity + SumQuantities(Tail(variants))

\* C5: the remote variants built for a group that is created or updated
\* are one per variant bucket of the group, each with the bucket's quantity
\* as inventory_quantity, so that the quantities sum to totalUnits; also
\* when units of the group have no stock id or no serial number.
C5_OneVariantPerBucket ==
  pc \in {"variants", "collect"} =>
    /\ Len(newVariants) = Len(productGroups[gi].variants)
    /\ \A b \in 1..Len(productGroups[gi].variants) :
         \E v \in 1..Len(newVariants) :
           /\ SameOptions(newVariants[v], BucketOptions(gi, b))
           /\ newVariants[v].inventory_quantity
                = productGroups[gi].variants[b].quantity
    /\ SumQuantities(newVariants) = productGroups[gi].totalUnits

\* the requests that open the processing of a group: the product-details
\* request of an update, or the create request
AttemptKinds == {"PUT products/id.json", "POST products.json"}

\* the groups the run has opened so far, in the order of the requests
Attempts ==
  LET opening == SelectSeq(calls, LAMBDA c : c.kind \in AttemptKinds)
  IN [k \in 1..Len(opening) |-> opening[k].group]

\* the collections of the catalog were fetched, so that the probe and the
\* product list succeeded before
SetupSucceeded ==
  /\ Len(calls) >= 3
  /\ calls[3].kind = "GET custom_collections.json"
  /\ calls[3].ok

\* C11: once the probe, the product list and the collection setup have
\* succeeded, the groups are opened one after the other in the order of the
\* batch, each once; when the run has ended every group has been opened, the
\* answer is the summary, with one line per group in the order of the
\* batch, whatever request of a group failed.
C11_EveryGroupAttempted ==
  SetupSucceeded =>
    /\ Attempts = [k \in 1..Len(Attempts) |-> k]
    /\ Len(Attempts) <= Len(productGroups)
    /\ pc = "group" => Len(Attempts) = gi - 1
    /\ pc = "idle" =>
         /\ Len(Attempts) = Len(productGroups)
         /\ responses[Len(responses)].status = 200
         /\ Len(responses[Len(responses)].body.details) = Len(productGroups)
         /\ \A g \in 1..Len(productGroups) :
              responses[Len(responses)].body.details[g].title
                = productGroups[g].seoTitle

\* a run over two groups was answered with the summary, a request of the
\* first group having failed
C11_Witness ==
  /\ SetupSucceeded
  /\ pc = "idle"
  /\ Len(productGroups) = 2
  /\ responses[Len(responses)].status = 200
  /\ \E k \in 1..Len(calls) : calls[k].group = 1 /\ ~calls[k].ok
  /\ \E k \in 1..Len(calls) :
       calls[k].group = 2 /\ calls[k].kind \in AttemptKinds

\* the number of lines of the kind in details
CountKind(details, kinds) ==
  Cardinality({ k \in 1..Len(details) : details[k].kind \in kinds })

\* the sum of totalUnits over the groups whose line says created or updated
RECURSIVE UnitsDone(_, _)
UnitsDone(details, g) ==
  IF g > Len(details) \/ g > Len(productGroups) THEN 0
  ELSE (IF details[g].kind \in {"created", "updated"}
        THEN productGroups[g].totalUnits ELSE 0)
       + UnitsDone(details, g + 1)

\* the counters of a summary agree with its lines
CountersAgree(r) ==
  /\ r.created = CountKind(r.details, {"created"})
  /\ r.updated = CountKind(r.details, {"updated"})
  /\ r.errors = CountKind(r.details, {"create failed", "update failed"})
  /\ r.skipped = 0

\* C12: the summary of a complete run counts every group in exactly one of
\* created, updated, errors and skipped, the four sum to the number of
\* groups, details has one line per group, and stockItemsProcessed is the
\* sum of totalUnits over the groups counted as created or updated.
C12_EveryGroupCounted ==
  (/\ pc = "idle"
   /\ Len(responses) >= 1
   /\ responses[Len(responses)].status = 200)
  => /\ CountersAgree(responses[Len(responses)].body)
     /\ responses[Len(responses)].body.created
          + responses[Len(responses)].body.updated
          + responses[Len(responses)].body.errors
          + responses[Len(responses)].body.skipped = Len(productGroups)
     /\ Len(responses[Len(responses)].body.details) = Len(productGroups)
     /\ responses[Len(responses)].body.stockItemsProcessed
          = UnitsDone(responses[Len(responses)].body.details, 1)

\* a complete run over two groups, one counted as done and one in errors
C12_Witness ==
  /\ pc = "idle"
  /\ Len(responses) >= 1
  /\ responses[Len(responses)].status = 200
  /\ Len(productGroups) = 2
  /\ responses[Len(responses)].body.errors = 1
  /\ responses[Len(responses)].body.created
       + responses[Len(responses)].body.updated = 1
  /\ responses[Len(responses)].body.stockItemsProcessed > 0

VariantCallKinds == {"PUT variants/id.json", "POST products/id/variants.json"}

\* C13: after a variant request of an update failed, the run sends no
\* further request for that group, and the group's line says the update
\* failed: it is counted in errors and not in updated.
C13_FailedVariantEndsUpdate ==
  \A k \in 1..Len(calls) :
    (calls[k].kind \in VariantCallKinds /\ ~calls[k].ok) =>
      /\ \A j \in (k + 1)..Len(calls) : calls[j].group # calls[k].group
      /\ Len(results.details) >= calls[k].group
      /\ results.details[calls[k].group].kind = "update failed"
      /\ CountersAgree(results)

\* the first of several variant requests of an update failed, and the run
\* has gone on
C13_Witness ==
  /\ pc \in {"group", "respond", "idle"}
  /\ vi < Len(newVariants)
  /\ Len(calls) >= 1
  /\ calls[Len(calls)].kind \in VariantCallKinds
  /\ ~calls[Len(calls)].ok
  /\ results.errors = 1
  /\ results.updated = 0

\* C14: a run sends at most one create request per group; after a create
\* request failed the run sends nothing more for the group, and the
\* group's line says the create failed: it is counted in errors.
C14_CreateAtMostOnce ==
  \A k \in 1..Len(calls) :
    calls[k].kind = "POST products.json" =>
      /\ \A j \in 1..Len(calls) :
           (calls[j].kind = "POST products.json"
            /\ calls[j].group = calls[k].group) => j = k
      /\ ~calls[k].ok =>
           /\ \A j \in (k + 1)..Len(calls) : calls[j].group # calls[k].group
           /\ Len(results.details) >= calls[k].group
           /\ results.details[calls[k].group].kind = "create failed"
           /\ results.errors >= 1

\* the create request of the first of two groups failed and the second
\* group was created
C14_Witness ==
  /\ pc = "respond"
  /\ Len(productGroups) = 2
  /\ \E k \in 1..Len(calls) :
       calls[k] = Call("POST products.json", 1, 0, 0, FALSE)
  /\ \E k \in 1..Len(calls) :
       /\ calls[k].kind = "POST products.json"
       /\ calls[k].group = 2
       /\ calls[k].ok
  /\ results.errors = 1
  /\ results.created = 1

\* the multipliers of the grades, in hundredths
GradeHundredths == "A" :> 70 @@ "B" :> 68 @@ "C" :> 66 @@ "D" :> 61

\* round(retailPrice(spec) * multiplier[grade])
GradePrice(spec, grade) ==
  (calculateRetailPrice(spec) * GradeHundredths[grade] + 50) \div 100

\* the grade letter of the option "Grade X" of a remote variant
GradeOf(remoteVariant) == Sub(remoteVariant.option2, 7, 7)

\* C16: every variant bucket of a group has the price round(retailPrice *
\* multiplier of its grade) and the retail price as compare-at price, and
\* so has every remote variant built for a group that is created or
\* updated, the default variant of a group without usable unit included.
C16_PricesFollowGrade ==
  /\ \A g \in 1..Len(productGroups) :
       \A b \in 1..Len(productGroups[g].variants) :
         /\ productGroups[g].variants[b].price
              = GradePrice(productGroups[g], productGroups[g].variants[b].condition)
         /\ productGroups[g].variants[b].compareAtPrice
              = calculateRetailPrice(productGroups[g])
  /\ pc \in {"variants", "collect"} =>
       \A v \in 1..Len(newVariants) :
         /\ newVariants[v].price
              = NatToString(GradePrice(productGroups[gi], GradeOf(newVariants[v])))
         /\ newVariants[v].compare_at_price
              = NatToString(calculateRetailPrice(productGroups[gi]))

\* C15: the catalog content of a group (title, handle, tags, collections,
\* SEO description, product description, prices) is a function of its spec
\* and its variants: two generations from the same spec and the same
\* variants give the same content.
C15_ContentDetermined ==
  \A j, k \in 1..Len(generated) :
    (/\ generated[j].spec = generated[k].spec
     /\ generated[j].variants = generated[k].variants)
    => generated[j].content = generated[k].content

\* C17: a generated title has at most 60 characters; a title that would be
\* longer is its first 57 characters followed by '...', any other title is
\* left as it is.
C17_TitleAtMostSixty ==
  \A k \in 1..Len(generated) :
    /\ Len(generated[k].content.title) <= 60
    /\ generated[k].content.title =
         IF Len(FullTitle(generated[k].spec)) > 60
         THEN Sub(FullTitle(generated[k].spec), 1, 57) \o "..."
         ELSE FullTitle(generated[k].spec)

\* a title of more than 60 characters was generated and came out cut, and a
\* title of at most 60 characters was generated
C17_Witness ==
  /\ \E k \in 1..Len(generated) :
       /\ Len(FullTitle(generated[k].spec)) > 60
       /\ Len(generated[k].content.title) = 60
       /\ Sub(generated[k].content.title, 58, 60) = "..."
  /\ \E k \in 1..Len(generated) :
       /\ Len(FullTitle(generated[k].spec)) <= 60
       /\ generated[k].content.title = FullTitle(generated[k].spec)

\* C18: a generated handle is made of a-z, 0-9 and '-' only, neither starts
\* nor ends with a hyphen, has no two hyphens in a row and has at most 255
\* characters, also when it was cut to that length.
WellFormedHandle(handle) ==
  /\ \A i \in 1..Len(handle) : Includes(HandleChars, Ch(handle, i))
  /\ Ch(handle, 1) # "-"
  /\ Ch(handle, Len(handle)) # "-"
  /\ ~Includes(handle, "--")
  /\ Len(handle) <= 255
C18_HandleWellFormed ==
  \A k \in 1..Len(generated) : WellFormedHandle(generated[k].content.handle)

\* the positions in calls of the requests of the kind made for group g
CallsOf(kind, g) ==
  {k \in 1..Len(calls) : calls[k].kind = kind /\ calls[k].group = g}

\* the membership requests a created product of group g is to get: one for
\* each of the group's collections that collectionsMap knows
MembershipsOf(g) == Len(KnownCollections(productGroups[g].collections, collections))

\* C19: after a product was created, a membership request for it that ends
\* with status 422, with another status that is not a success, or with an
\* exception is not an error of the group: the remaining membership requests
\* of the product are made, the group's line says created, and errors is
\* not incremented.
C19_MembershipFailureTolerated ==
  \A k \in 1..Len(calls) :
    (calls[k].kind = "POST collects.json" /\ calls[k].outcome # "ok") =>
      IF Len(results.details) >= calls[k].group
      THEN /\ results.details[calls[k].group].kind = "created"
           /\ Cardinality(CallsOf("POST collects.json", calls[k].group))
                = MembershipsOf(calls[k].group)
           /\ CountersAgree(results)
      ELSE /\ pc = "collect"
           /\ gi = calls[k].group
           /\ Cardinality(CallsOf("POST collects.json", gi)) + Len(pending)
                = MembershipsOf(gi)
           /\ CountersAgree(results)

\* a membership request that was not the product's last one failed (422,
\* another status, or thrown), the later ones were made, and the group is
\* counted as created with no error
C19_Witness ==
  \E k \in 1..Len(calls) :
    /\ calls[k].kind = "POST collects.json"
    /\ calls[k].outcome \in {"422", "failed", "thrown"}
    /\ \E j \in (k + 1)..Len(calls) :
         calls[j].kind = "POST collects.json" /\ calls[j].group = calls[k].group
    /\ Len(results.details) >= calls[k].group
    /\ results.details[calls[k].group].kind = "created"
    /\ results.errors = 0

\* C20: for a product that was created and has image data, the image
\* uploads are made one after the other, first image first, at most 8 of
\* them; an upload that fails or throws does not stop the following ones,
\* and the group's line says created whatever the uploads gave.
C20_ImageUploadsTolerated ==
  \A g \in 1..Len(productGroups) :
    /\ Cardinality(CallsOf("POST products/id/images.json", g)) <= 8
    /\ \A k \in CallsOf("POST products/id/images.json", g) :
         /\ k > 1
         /\ calls[k - 1].group = g
         /\ IF calls[k].item = 1
            THEN calls[k - 1].kind = "POST products.json" /\ calls[k - 1].ok
            ELSE /\ calls[k - 1].kind = "POST products/id/images.json"
                 /\ calls[k - 1].item = calls[k].item - 1
    /\ (/\ Len(results.details) >= g
        /\ CallsOf("POST products/id/images.json", g) # {})
       => /\ results.details[g].kind = "created"
          /\ Cardinality(CallsOf("POST products/id/images.json", g))
               = ImagesToUpload
          /\ CountersAgree(results)

\* the match has more than 8 images, 8 uploads were made for a product, one
\* of the first 7 failed or threw, and the group is counted as created
C20_Witness ==
  /\ imageAvailability > 8
  /\ \E g \in 1..Len(results.details) :
       /\ Cardinality(CallsOf("POST products/id/images.json", g)) = 8
       /\ \E k \in CallsOf("POST products/id/images.json", g) :
            calls[k].outcome \in {"failed", "thrown"} /\ calls[k].item < 8
       /\ results.details[g].kind = "created"
       /\ uploadedCount = 7
  /\ results.errors = 0

\* a step that sends the update of a remote variant
VariantWrite ==
  /\ pc = "variants"
  /\ Len(calls') = Len(calls) + 1
  /\ calls'[Len(calls')].kind = "PUT variants/id.json"

\* C21: the quantity an update writes to a remote variant is the quantity
\* the catalog holds for that variant at the time of the write plus the
\* quantity added for the bucket, also when the catalog's quantity changed
\* after the product list of the run was fetched.
C21_WriteAddsToCurrentQuantity ==
  [][VariantWrite =>
       calls'[Len(calls')].quantity
         = store.products[existingProduct]
             .variants[calls'[Len(calls')].item].inventory_quantity
           + newVariants[vi].inventory_quantity]_vars

\* the requests that create or modify data of the catalog
ModifyingKinds ==
  {"POST custom_collections.json", "PUT products/id.json",
   "PUT variants/id.json", "POST products/id/variants.json",
   "POST products.json", "POST products/id/images.json", "POST collects.json"}

\* C23: within a run, a request that created or modified data of the
\* catalog is followed by a pause before the next request of the run is
\* issued: no two such requests are issued back to back.
C23_PauseAfterModifyingCall ==
  \A k \in 1..(Len(calls) - 1) :
    (calls[k].kind \in ModifyingKinds /\ calls[k].ok) => ~calls[k].unpaused

\* the handler is in its loop over the groups, or past it
GroupsStarted == pc \in {"group", "variants", "images", "collect", "respond"}

\* C24: when the processing of the groups starts, every collection name a
\* group of the batch asks for has an id in collectionsMap, so that a created
\* product gets one membership request for each name of its collections;
\* the collections of the catalog are fetched once in the run, before any
\* request of a group.
C24_EveryCollectionKnown ==
  GroupsStarted =>
    /\ \A g \in 1..Len(productGroups) :
         /\ \A n \in 1..Len(productGroups[g].collections) :
              Lookup(collections,
                     ToLowerCase(productGroups[g].collections[n]), 1) # 0
         /\ (/\ Len(results.details) >= g
             /\ results.details[g].kind = "created")
            => Cardinality(CallsOf("POST collects.json", g))
                 = Len(productGroups[g].collections)
    /\ Cardinality({k \in 1..Len(calls) :
                      calls[k].kind = "GET custom_collections.json"}) = 1
    /\ \A k \in 1..Len(calls) :
         calls[k].group # 0 => k > 3

(***************************************************************************)
(* The primary grade of a listing                                          *)
(***************************************************************************)
GradesOf(variants) == { variants[i].condition : i \in 1..Len(variants) }

RECURSIVE GradeUnits(_, _)
GradeUnits(variants, grade) ==
  IF variants = << >> THEN 0
  ELSE (IF Head(variants).condition = grade THEN Head(variants).quantity
        ELSE 0)
       + GradeUnits(Tail(variants), grade)

FirstVariantOf(variants, grade) ==
  MinOf({ i \in 1..Len(variants) : variants[i].condition = grade })

LargestGrades(variants) ==
  { g \in GradesOf(variants) :
      \A h \in GradesOf(variants) :
        GradeUnits(variants, h) <= GradeUnits(variants, g) }

LatestLargestGrade(variants) ==
  CHOOSE g \in LargestGrades(variants) :
    \A h \in LargestGrades(variants) :
      FirstVariantOf(variants, h) <= FirstVariantOf(variants, g)

\* C25: the primary grade of a listing, in the product description and in
\* the search description, is the grade with the most units summed over the
\* listing's variants; among grades with the same number of units it is the
\* one whose first variant comes latest in the order of the variants
C25_PrimaryGradeIsLatestLargest ==
  \A k \in 1..Len(generated) :
    generated[k].variants # << >> =>
      /\ generated[k].content.productDescription.primaryGrade
           = LatestLargestGrade(generated[k].variants)
      /\ generated[k].content.seoDescription
           = TruncateDescription(
               SEODescriptionText(
                 LatestLargestGrade(generated[k].variants),
                 generated[k].spec.productType
                   \o (IF generated[k].spec.displaySize # ""
                       THEN " " \o generated[k].spec.displaySize ELSE ""),
                 OrElse(ReplaceFirst(ReplaceFirst(generated[k].spec.processor,
                                                  "Apple ", ""),
                                     " chip", ""),
                        "M2")))

\* a listing with two grades of one unit each, the first variant of grade B
\* before the first of grade A, has been described with the primary grade A
C25_Witness ==
  \E k \in 1..Len(generated) :
    /\ Cardinality(LargestGrades(generated[k].variants)) = 2
    /\ FirstVariantOf(generated[k].variants, "B")
         < FirstVariantOf(generated[k].variants, "A")
    /\ generated[k].content.productDescription.primaryGrade = "A"

(***************************************************************************)
(* A failed update and the quantities in the catalog                       *)
(***************************************************************************)
\* the inventory quantities of the variants of product p of a catalog
QuantitiesOf(catalog, p) ==
  [v \in 1..Len(catalog.products[p].variants) |->
     catalog.products[p].variants[v].inventory_quantity]

\* the groups of the batch with the title of an entry of details
GroupsTitled(title) ==
  { g \in 1..Len(productGroups) : productGroups[g].seoTitle = title }

\* the run in progress, or just answered, is the first one
FirstRun == runs = 0 \/ (runs = 1 /\ pc = "idle")

\* C27: when the update of a group fails, the variants of the remote product
\* hold the quantities they held before the run: the failed group has added
\* none of its units
C27_FailedUpdateAddsNothing ==
  FirstRun =>
    \A k \in 1..Len(results.details) :
      (/\ results.details[k].kind = "update failed"
       /\ Cardinality(GroupsTitled(results.details[k].title)) = 1) =>
        \A p \in 1..Len(initialStore.products) :
          ToLowerCase(initialStore.products[p].title)
              = ToLowerCase(results.details[k].title)
            => QuantitiesOf(store, p) = QuantitiesOf(initialStore, p)

(***************************************************************************)
(* The variant counters of the summary                                     *)
(***************************************************************************)
\* the requests of the run of one kind for group g that succeeded
DoneFor(kind, g) ==
  { k \in 1..Len(calls) :
      calls[k].kind = kind /\ calls[k].group = g /\ calls[k].ok }

\* the remote variants the run created for group g: those of a created
\* product and those added to an existing product
VariantsCreatedFor(g) ==
  Cardinality(DoneFor("POST products/id/variants.json", g))
  + (IF DoneFor("POST products.json", g) # {}
     THEN Len(createAdvancedVariants(productGroups[g])) ELSE 0)

\* the groups 1..g the summary counts as created or updated
CountedUpTo(g) ==
  { h \in 1..g : results.details[h].kind \in {"created", "updated"} }

RECURSIVE RemoteVariantsCreated(_)
RemoteVariantsCreated(g) ==
  IF g = 0 THEN 0
  ELSE (IF g \in CountedUpTo(g) THEN VariantsCreatedFor(g) ELSE 0)
       + RemoteVariantsCreated(g - 1)

RECURSIVE RemoteVariantsUpdated(_)
RemoteVariantsUpdated(g) ==
  IF g = 0 THEN 0
  ELSE (IF g \in CountedUpTo(g)
        THEN Cardinality(DoneFor("PUT variants/id.json", g)) ELSE 0)
       + RemoteVariantsUpdated(g - 1)

\* C28: when the run is complete, variantsCreated is the number of remote
\* variants created by the groups counted as created or updated, a variant
\* that an update added to an existing product included, and variantsUpdated
\* is the number of existing remote variants whose quantity was written
C28_VariantCountersExact ==
  pc = "respond" =>
    /\ results.variantsCreated
         = RemoteVariantsCreated(Len(results.details))
    /\ results.variantsUpdated
         = RemoteVariantsUpdated(Len(results.details))

(***************************************************************************)
(* Prices and storage                                                      *)
(***************************************************************************)
\* the capacity a normalised storage text stands for, in gigabytes
CapacityOf(storage) ==
  IF Sub(storage, Len(storage) - 1, Len(storage)) = "TB"
  THEN 1000 * ParseInt(storage) ELSE ParseInt(storage)

\* two specs that differ in storage and in nothing else
DifferOnlyInStorage(a, b) ==
  a.storage # b.storage /\ [a EXCEPT !.storage = b.storage] = b

\* C30: of two specs that differ only in storage, the one with the larger
\* capacity has a retail price that is not lower, and so has each of its
\* variant prices for the same grade
C30_PriceGrowsWithStorage ==
  \A j, k \in 1..Len(generated) :
    (/\ DifferOnlyInStorage(generated[j].spec, generated[k].spec)
     /\ CapacityOf(generated[j].spec.storage)
          < CapacityOf(generated[k].spec.storage)) =>
      /\ generated[j].content.retailPrice <= generated[k].content.retailPrice
      /\ \A v \in 1..Len(generated[j].variants),
            w \in 1..Len(generated[k].variants) :
           generated[j].variants[v].condition
               = generated[k].variants[w].condition
             => generated[j].content.prices[v].price
                  <= generated[k].content.prices[w].price

(***************************************************************************)
(* Two invocations of POST /api/sync-shopify that overlap                  *)
(* Node runs one invocation at a time and changes to another only where    *)
(* the running one awaits an answer or a timer; every action of the        *)
(* handler above ends at such a point.  The variables of the handler hold  *)
(* the state of the invocation that runs, waiting that of the other.       *)
(***************************************************************************)
\* the state of the invocation that runs, as a record
Running ==
  [pc |-> pc, existingProducts |-> existingProducts,
   collections |-> collections, pending |-> pending, results |-> results,
   gi |-> gi, existingProduct |-> existingProduct,
   createdProduct |-> createdProduct, newVariants |-> newVariants, vi |-> vi,
   tally |-> tally, imageIndex |-> imageIndex,
   uploadedCount |-> uploadedCount, calls |-> calls]

\* the event loop turns to the other invocation
Switch ==
  /\ groupResult.returned
  /\ waiting' = Running
  /\ pc' = waiting.pc
  /\ existingProducts' = waiting.existingProducts
  /\ collections' = waiting.collections
  /\ pending' = waiting.pending
  /\ results' = waiting.results
  /\ gi' = waiting.gi
  /\ existingProduct' = waiting.existingProduct
  /\ createdProduct' = waiting.createdProduct
  /\ newVariants' = waiting.newVariants
  /\ vi' = waiting.vi
  /\ tally' = waiting.tally
  /\ imageIndex' = waiting.imageIndex
  /\ uploadedCount' = waiting.uploadedCount
  /\ calls' = waiting.calls
  /\ UNCHANGED << store, failures, runs, responses, appleProducts,
                  initialStore, index, productGroups, outcomes, groupResult,
                  generated, imageAvailability, costs >>

\* a request starts a run while fewer than MaxRuns requests have been
\* accepted, the one the other invocation is handling included
StartOverlapping ==
  /\ runs + (IF waiting.pc = "idle" THEN 0 ELSE 1) < MaxRuns
  /\ StartSync

\* the batches that two invocations synchronise at overlapping times
OverlapBatches ==
  { << RowA >>, << RowA, RowB >>, << RowX, RowA >>, << RowC, RowA >> }

\* the catalogs of InitialStores, each with every collection the groups of
\* these batches need
OverlapStores ==
  { [catalog EXCEPT !.collections = ItemFacts[RowA].collections] :
      catalog \in InitialStores }

OverlapInit ==
  /\ appleProducts \in OverlapBatches
  /\ GroupingStart
  /\ store \in OverlapStores
  /\ initialStore = store
  /\ imageAvailability = 0
  /\ HandlerIdle

\* the steps of the handler when every request to the catalog succeeds
OverlapNext ==
  \/ GroupingNext
  \/ StartOverlapping
  \/ Switch
  \/ Probe(TRUE)
  \/ FetchProducts(TRUE)
  \/ FetchCollections(TRUE)
  \/ UpdateProductDetails(TRUE)
  \/ UpdateVariant(TRUE)
  \/ CreateVariant(TRUE)
  \/ CreateProduct(TRUE)
  \/ AddToCollection("ok")
  \/ Respond

OverlapSpec == OverlapInit /\ [][OverlapNext]_vars

\* the positions at which the handler has sent the request it waits for in
\* the turn that handled the previous answer, with no timer between: the
\* probe (559), the product list (570) and the collection list (2778)
AwaitsAnswer(position) == position \in {"probe", "products", "collections"}

\* C22: at every moment at most one request to the catalog is in flight,
\* also when two invocations of the handler overlap
C22_OneRequestInFlight == ~(AwaitsAnswer(pc) /\ AwaitsAnswer(waiting.pc))

\* both invocations have answered 200
BothCompleted ==
  /\ pc = "idle"
  /\ waiting.pc = "idle"
  /\ Len(responses) = 2
  /\ responses[1].status = 200
  /\ responses[2].status = 200

\* the products of a catalog with the title of group g
ProductsTitled(catalog, g) ==
  { p \in 1..Len(catalog.products) :
      ToLowerCase(catalog.products[p].title)
        = ToLowerCase(productGroups[g].seoTitle) }

\* C26: two invocations with the same batch, handled at overlapping times
\* against a catalog without a product of a group's title, leave at most one
\* product with that title when both have completed
C26_OverlapCreatesOnce ==
  BothCompleted =>
    \A g \in 1..Len(productGroups) :
      ProductsTitled(initialStore, g) = {}
        => Cardinality(ProductsTitled(store, g)) <= 1

(***************************************************************************)
(* POST /api/add-cost for one stock id                                     *)
(* The handler awaits three statements in turn.  The database is opened in *)
(* sqlite3's default mode, which fixes no order between the statements of  *)
(* different requests, and no transaction holds the three statements of    *)
(* one request together.                                                   *)
(***************************************************************************)
RECURSIVE SumAmounts(_)
SumAmounts(rows) ==
  IF rows = << >> THEN 0 ELSE Head(rows) + SumAmounts(Tail(rows))

CostInit ==
  /\ appleProducts = << >>
  /\ imageAvailability = 0
  /\ GroupingStart
  /\ store = EmptyStore
  /\ initialStore = store
  /\ HandlerIdle

CostsOnly ==
  UNCHANGED << appleProducts, initialStore, index, productGroups, outcomes,
               groupResult, generated, imageAvailability, waiting, store, pc,
               existingProducts, collections, pending, results, gi,
               existingProduct, createdProduct, newVariants, vi, tally,
               imageIndex, uploadedCount, calls, failures, runs, responses >>

\* lines 88-96: a request arrives and its INSERT is handed to the database
ReceiveCost(r, amount) ==
  /\ costs.requests[r].pc = "idle"
  /\ costs' = [costs EXCEPT !.requests[r] =
                 [pc |-> "insert", amount |-> amount, totalCosts |-> 0]]
  /\ CostsOnly

\* lines 93-96 and 99-101: the INSERT runs, the handler asks for the sum
InsertCost(r) ==
  /\ costs.requests[r].pc = "insert"
  /\ costs' = [costs EXCEPT !.rows = Append(@, costs.requests[r].amount),
                            !.requests[r].pc = "sum"]
  /\ CostsOnly

\* lines 99-108: the SELECT SUM runs, the handler keeps the total and hands
\* the UPDATE to the database
SumCosts(r) ==
  /\ costs.requests[r].pc = "sum"
  /\ costs' = [costs EXCEPT !.requests[r].totalCosts = SumAmounts(costs.rows),
                            !.requests[r].pc = "update"]
  /\ CostsOnly

\* lines 106-110: the UPDATE runs and the request is answered
UpdateCosts(r) ==
  /\ costs.requests[r].pc = "update"
  /\ costs' = [costs EXCEPT !.additional_costs = costs.requests[r].totalCosts,
                            !.requests[r].pc = "done"]
  /\ CostsOnly

CostNext ==
  \/ \E r \in 1..MaxRequests, amount \in 1..MaxAmount : ReceiveCost(r, amount)
  \/ \E r \in 1..MaxRequests : InsertCost(r)
  \/ \E r \in 1..MaxRequests : SumCosts(r)
  \/ \E r \in 1..MaxRequests : UpdateCosts(r)

CostSpec == CostInit /\ [][CostNext]_vars

\* every request that arrived has been answered, and one has
CostRequestsCompleted ==
  /\ \A r \in 1..MaxRequests : costs.requests[r].pc \in {"idle", "done"}
  /\ \E r \in 1..MaxRequests : costs.requests[r].pc = "done"

\* C29: when the add-cost requests for a stock id have all completed, the
\* product's additional_costs is the sum of the amounts of its cost rows
C29_CostFieldIsSumOfRows ==
  CostRequestsCompleted => costs.additional_costs = SumAmounts(costs.rows)

(***************************************************************************)
(* Properties of createProductGroups                                       *)
(***************************************************************************)
RECURSIVE SumBucketQuantities(_)
SumBucketQuantities(variants) ==
  IF variants = << >> THEN 0
  ELSE Head(variants).quantity + SumBucketQuantities(Tail(variants))

\* C6: after every row, every group has totalUnits = the length of its
\* stockItems = the sum of the quantities of its variants, and every variant
\* has quantity = the length of its own stockItems; a row that raises leaves
\* the equalities as they were.
C6_CountsAgree ==
  \A g \in 1..Len(productGroups) :
    /\ productGroups[g].totalUnits = Len(productGroups[g].stockItems)
    /\ productGroups[g].totalUnits
         = SumBucketQuantities(productGroups[g].variants)
    /\ \A v \in 1..Len(productGroups[g].variants) :
         productGroups[g].variants[v].quantity
           = Len(productGroups[g].variants[v].stockItems)

\* a row raised between two rows that were added to the same group
C6_Witness ==
  /\ Len(outcomes) = MaxRows
  /\ outcomes[1] = "added"
  /\ outcomes[2] = "raised"
  /\ outcomes[Len(outcomes)] = "added"
  /\ Len(productGroups) = 1
  /\ productGroups[1].totalUnits = 2

\* the rows of a list of stock items, as a set
Members(stockItems) ==
  { stockItems[k].originalData : k \in 1..Len(stockItems) }

\* what of a group does not depend on the order inside its lists
GroupSummary(group) ==
  [key |-> group.key,
   totalUnits |-> group.totalUnits,
   members |-> Members(group.stockItems),
   variants |-> { [key |-> group.variants[v].key,
                   quantity |-> group.variants[v].quantity,
                   members |-> Members(group.variants[v].stockItems)] :
                  v \in 1..Len(group.variants) }]

Summary(groups) == { GroupSummary(groups[g]) : g \in 1..Len(groups) }

Orders(n) ==
  { f \in [1..n -> 1..n] : \A i, j \in 1..n : i # j => f[i] # f[j] }

Permuted(items, f) == [i \in 1..Len(items) |-> items[f[i]]]

SpecFields(r) ==
  << r.productType, r.displaySize, r.processor, r.storage, r.memory, r.year >>

\* the positions of the rows processed so far that were added to a group
AddedRows == { i \in 1..Len(outcomes) : outcomes[i] = "added" }

\* the groups that hold the row
GroupsOf(item) ==
  { g \in 1..Len(productGroups) : item \in Members(productGroups[g].stockItems) }

\* C8: two classified rows are in the same group exactly when their six
\* non-variant fields are identical, and every unit of a group has the
\* fields recorded on the group.
C8_SameGroupIffSameFields ==
  /\ \A i, j \in AddedRows :
       (GroupsOf(appleProducts[i]) \cap GroupsOf(appleProducts[j]) # {})
       <=> (SpecFields(ItemFacts[appleProducts[i]].productInfo)
              = SpecFields(ItemFacts[appleProducts[j]].productInfo))
  /\ \A g \in 1..Len(productGroups) :
       \A item \in Members(productGroups[g].stockItems) :
         SpecFields(ItemFacts[item].productInfo) = SpecFields(productGroups[g])

\* the rows of the batch that the classifier gives a spec
Classified(items) ==
  SelectSeq(items, LAMBDA item : ItemFacts[item].productInfo # Null)

\* C9: a row no category predicate matches is rejected, is in no group and
\* in no variant, and leaves the processing of the other rows as it would
\* be without it; the units over all groups are as many as the rows that
\* classified, the other rows of the batch being the rejected ones.
C9_OnlyUnclassifiedRejected ==
  groupResult.returned =>
    /\ \A i \in 1..Len(appleProducts) :
         ItemFacts[appleProducts[i]].productInfo = Null =>
           /\ outcomes[i] = "rejected"
           /\ GroupsOf(appleProducts[i]) = {}
    /\ productGroups = FoldItems(<< >>, Classified(appleProducts))
    /\ groupResult.totalUniqueUnits = Len(Classified(appleProducts))
    /\ groupResult.totalItems - groupResult.totalUniqueUnits
         = Len(appleProducts) - Len(Classified(appleProducts))

====
